---- MODULE Spec2Model ----
(***************************************************************************)
(* A model of the static parameter-schema extraction engine of cs-helper   *)
(* (bin/params-docs.ts): the module graph resolver                         *)
(* (getSourceFilesFromEntry), the per-file scanner's place in the driver,  *)
(* and the extraction cache with its driver (getParseParamsFromCode).      *)
(***************************************************************************)
EXTENDS Integers, Sequences, FiniteSets, TLC

VARIABLES
    fs,       \* the file system: resolved path -> [readable, ast, scanThrows]
    cache,    \* parseParamsCache: resolved entry path -> result object
    nextId,   \* identity of the next array object the driver allocates
    pc,       \* position of the running call: "idle", "discover", "scan"
    op,       \* the public call being (or last) executed: [fn, arg]
    stack,    \* collectImports activation records, innermost last
    visited,  \* getSourceFilesFromEntry's visited set
    result,   \* getSourceFilesFromEntry's result list
    reads,    \* paths read by collectImports during the call, in order
    ret,      \* outcome of the last finished call
    warned,   \* console.warn output of the running (or last) call
    logLevel,           \* utils/log.ts: the current log level
    logQueue,           \* utils/log.ts: the queued items, oldest first
    queueTimer,         \* utils/log.ts: the timer the module remembers, or null
    currentQueueLevel,  \* utils/log.ts: the level of the queued items, or null
    timers,             \* the timers of the runtime that are pending
    customScript,       \* the calls of customScript.log, each a list of messages
    logged              \* the calls of log() so far, in order

logVars ==
    <<logLevel, logQueue, queueTimer, currentQueueLevel, timers, customScript,
      logged>>

vars ==
    <<fs, cache, nextId, pc, op, stack, visited, result, reads, ret, warned,
      logLevel, logQueue, queueTimer, currentQueueLevel, timers, customScript,
      logged>>

-----------------------------------------------------------------------------
(* Bounds of the model.                                                    *)

\* how many result arrays the driver may allocate in one behaviour
MaxObjs == 3
\* how many of the probed candidate files may exist in the resolver's inputs
MaxExisting == 3
\* how many references a generated source file holds at most
MaxRefs == 2

-----------------------------------------------------------------------------
(* Paths.  A path is a sequence of segments; a segment is a name split at  *)
(* its extension, so that path.extname and `resolved + ext` can be         *)
(* computed.  "." and ".." are segments of path strings only.              *)

Seg(stem, ext) == [stem |-> stem, ext |-> ext]
DOT == Seg(".", "")
DOTDOT == Seg("..", "")

\* a path string as callers and import specifiers spell it
PathStr(abs, segs) == [abs |-> abs, segs |-> segs]

\* process.cwd()
Cwd == <<Seg("proj", "")>>

RECURSIVE Normalize(_, _)
Normalize(base, segs) ==
    IF segs = <<>> THEN base
    ELSE LET s == Head(segs)
             b == IF s = DOT THEN base
                  ELSE IF s = DOTDOT
                       THEN (IF base = <<>> THEN <<>>
                             ELSE SubSeq(base, 1, Len(base) - 1))
                       ELSE Append(base, s)
         IN Normalize(b, Tail(segs))

\* pathLib.resolve(from, p) for an absolute, normalized `from`
PathResolve(from, p) ==
    IF p.abs THEN Normalize(<<>>, p.segs) ELSE Normalize(from, p.segs)

\* pathLib.resolve(p): relative to the working directory
ResolveCwd(p) == PathResolve(Cwd, p)

\* pathLib.dirname of a resolved path
Dirname(path) ==
    IF path = <<>> THEN <<>> ELSE SubSeq(path, 1, Len(path) - 1)

\* pathLib.extname of a resolved path
Extname(path) ==
    IF path = <<>> THEN "" ELSE path[Len(path)].ext

\* resolved + ext, for a resolved path without extension
AddExt(path, ext) ==
    IF path = <<>> THEN <<Seg("", ext)>>
    ELSE [path EXCEPT ![Len(path)] = Seg(path[Len(path)].stem, ext)]

\* pathLib.join(resolved, 'index' + ext)
JoinIndex(path, ext) == Append(path, Seg("index", ext))

\* a resolver that takes every specifier for a relative one
AnySpecifier(spec) == TRUE

\* specifier.startsWith('.')
StartsWithDot(spec) ==
    /\ ~spec.abs
    /\ spec.segs # <<>>
    /\ spec.segs[1] \in {DOT, DOTDOT}

extensions == <<".ts", ".tsx", ".js", ".jsx", ".mjs", ".cjs">>

-----------------------------------------------------------------------------
(* The file system.                                                        *)

NoPath == <<Seg("", "")>>      \* null, where a path is expected

IsPrefix(p, q) == Len(p) < Len(q) /\ SubSeq(q, 1, Len(p)) = p

\* a directory is a proper prefix of a file's path
IsDir(p) == \E q \in DOMAIN fs : IsPrefix(p, q)

\* fs.existsSync
ExistsSync(p) == p \in DOMAIN fs \/ IsDir(p)

\* fs.readFileSync throws: a directory (EISDIR) or a file that cannot be read
ReadThrows(p) == IsDir(p) \/ (p \in DOMAIN fs /\ ~fs[p].readable)

-----------------------------------------------------------------------------
(* Syntax trees.  A node carries what the two tree walks look at: its      *)
(* kind, for a call its callee (the import keyword, or an identifier's     *)
(* text; "" for any other callee), whether its module specifier or first   *)
(* argument is a string literal, that literal as a path string, its        *)
(* position, the 0-based line of that position, and its children in the    *)
(* order ts.forEachChild visits them.                                      *)

NoSpec == PathStr(FALSE, <<>>)

SourceFile(kids) ==
    [kind |-> "SourceFile", callee |-> "", argLit |-> FALSE, spec |-> NoSpec,
     pos |-> 0, line |-> 0, kids |-> kids]

ImportDeclaration(pos, line, spec) ==
    [kind |-> "ImportDeclaration", callee |-> "", argLit |-> TRUE, spec |-> spec,
     pos |-> pos, line |-> line, kids |-> <<>>]

CallExpression(pos, line, callee, argLit, spec, kids) ==
    [kind |-> "CallExpression", callee |-> callee, argLit |-> argLit, spec |-> spec,
     pos |-> pos, line |-> line, kids |-> kids]

RECURSIVE Concat(_)
Concat(seqs) == IF seqs = <<>> THEN <<>> ELSE Head(seqs) \o Concat(Tail(seqs))

\* the nodes in the order `visit` reaches them: a node, then ts.forEachChild
RECURSIVE Preorder(_)
Preorder(node) ==
    <<node>> \o Concat([i \in 1..Len(node.kids) |-> Preorder(node.kids[i])])

\* the three tests of collectImports' visit: an import declaration with a
\* string-literal specifier, import('...') and require('...')
IsReference(node) ==
    \/ node.kind = "ImportDeclaration" /\ node.argLit
    \/ node.kind = "CallExpression" /\ node.callee = "import" /\ node.argLit
    \/ node.kind = "CallExpression" /\ node.callee = "require" /\ node.argLit

\* a walk that takes a file's references last to first
ReferencesLastFirst(ast) ==
    LET nodes == SelectSeq(Preorder(ast), IsReference)
    IN [i \in 1..Len(nodes) |-> nodes[Len(nodes) + 1 - i].spec]

\* the specifiers collectImports' visit hands to resolveModuleSpecifier, in order
ReferencesOf(ast) ==
    LET nodes == SelectSeq(Preorder(ast), IsReference)
    IN [i \in 1..Len(nodes) |-> nodes[i].spec]

-----------------------------------------------------------------------------
(* getSourceFilesFromEntry.resolveModuleSpecifier                          *)

\* a `for (const ext of extensions)` loop returning its first existing candidate
RECURSIVE FirstExisting(_)
FirstExisting(candidates) ==
    IF candidates = <<>> THEN NoPath
    ELSE IF ExistsSync(Head(candidates)) THEN Head(candidates)
    ELSE FirstExisting(Tail(candidates))

DirectCandidates(resolved) ==
    [i \in 1..Len(extensions) |-> AddExt(resolved, extensions[i])]

IndexCandidates(resolved) ==
    [i \in 1..Len(extensions) |-> JoinIndex(resolved, extensions[i])]

\* a resolver that probes the index files before the direct files
resolveIndexFirst(specifier, fromDir) ==
    IF ~StartsWithDot(specifier) THEN NoPath
    ELSE LET resolved == PathResolve(fromDir, specifier) IN
         IF Extname(resolved) = ""
         THEN LET index == FirstExisting(IndexCandidates(resolved)) IN
              IF index # NoPath THEN index
              ELSE FirstExisting(DirectCandidates(resolved))
         ELSE IF ExistsSync(resolved) THEN resolved ELSE NoPath

resolveModuleSpecifier(specifier, fromDir) ==
    IF ~StartsWithDot(specifier) THEN NoPath
    ELSE LET resolved == PathResolve(fromDir, specifier) IN
         IF Extname(resolved) = ""
         THEN LET direct == FirstExisting(DirectCandidates(resolved)) IN
              IF direct # NoPath THEN direct
              ELSE FirstExisting(IndexCandidates(resolved))
         ELSE IF ExistsSync(resolved) THEN resolved ELSE NoPath

-----------------------------------------------------------------------------
(* getSourceFilesFromEntry.collectImports, one activation record per call. *)

Frame(file, refs) == [file |-> file, fromDir |-> Dirname(file), refs |-> refs]

\* a walk that forgets what it has visited
NeverVisited(normalized, seen) == FALSE

\* visited.has(normalized)
AlreadyVisited(normalized, seen) == normalized \in seen

\* collectImports(filePath) up to the start of its tree walk, on the locals
\* l = [stack, visited, result, reads]; threw: readFileSync threw
CollectEnter(filePath, l) ==
    LET normalized == ResolveCwd(PathStr(TRUE, filePath)) IN
    IF AlreadyVisited(normalized, l.visited)
    THEN [l EXCEPT !.threw = FALSE]
    ELSE IF ~ExistsSync(normalized)
    THEN [l EXCEPT !.visited = @ \cup {normalized}, !.threw = FALSE]
    ELSE IF ReadThrows(normalized)
    THEN [l EXCEPT !.visited = @ \cup {normalized},
                   !.reads = Append(@, normalized),
                   !.threw = TRUE]
    ELSE [l EXCEPT !.visited = @ \cup {normalized},
                   !.reads = Append(@, normalized),
                   !.result = Append(@, normalized),
                   !.stack = Append(@, Frame(normalized,
                                             ReferencesOf(fs[normalized].ast))),
                   !.threw = FALSE]

\* the locals of a fresh getSourceFilesFromEntry call
FreshLocals == [stack |-> <<>>, visited |-> {}, result |-> <<>>, reads |-> <<>>,
                threw |-> FALSE]

Locals == [stack |-> stack, visited |-> visited, result |-> result,
           reads |-> reads, threw |-> FALSE]

SetLocals(l) ==
    /\ stack' = l.stack
    /\ visited' = l.visited
    /\ result' = l.result
    /\ reads' = l.reads

-----------------------------------------------------------------------------
(* analyzeParseParamsInFile and the driver's scan loop.  A call record     *)
(* holds the owning file and the 1-based line of the call.                 *)

IsParseParamsCall(node) ==
    node.kind = "CallExpression" /\ node.callee = "parseParams"

analyzeParseParamsInFile(sourceFile) ==
    LET resolvedPath == ResolveCwd(PathStr(TRUE, sourceFile))
        nodes == SelectSeq(Preorder(fs[sourceFile].ast), IsParseParamsCall)
    IN [i \in 1..Len(nodes) |->
           [filePath |-> resolvedPath, line |-> nodes[i].line + 1]]

\* analyzeParseParamsInFile throws: its own readFileSync fails, or the scan does
ScanThrows(file) ==
    ReadThrows(file) \/ file \notin DOMAIN fs \/ fs[file].scanThrows

\* a driver that scans the discovered files last to first
ScanLastFirst(sourceFiles) ==
    [i \in 1..Len(sourceFiles) |-> sourceFiles[Len(sourceFiles) + 1 - i]]

\* the order in which the driver's loop takes the discovered files
ScanOrder(sourceFiles) == sourceFiles

\* for (const file of sourceFiles) try { allCalls.push(...) } catch { warn }
ScanAll(sourceFiles) ==
    LET files == ScanOrder(sourceFiles) IN
    Concat([i \in 1..Len(files) |->
               IF ScanThrows(files[i]) THEN <<>>
               ELSE analyzeParseParamsInFile(files[i])])

FileWarning(file) == [kind |-> "file", file |-> file]
PipelineWarning == [kind |-> "pipeline", file |-> NoPath]

ScanWarnings(sourceFiles) ==
    LET files == ScanOrder(sourceFiles)
        failed == SelectSeq(files, ScanThrows)
    IN [i \in 1..Len(failed) |-> FileWarning(failed[i])]

\* pathLib.relative(from, to) for resolved paths
RECURSIVE CommonPrefixLen(_, _)
CommonPrefixLen(p, q) ==
    IF p = <<>> \/ q = <<>> \/ Head(p) # Head(q) THEN 0
    ELSE 1 + CommonPrefixLen(Tail(p), Tail(q))

Relative(from, to) ==
    LET k == CommonPrefixLen(from, to)
    IN [i \in 1..(Len(from) - k) |-> DOTDOT] \o SubSeq(to, k + 1, Len(to))

\* formatParseParamsForDocs: '' for no calls, else one titled block per call
formatParseParamsForDocs(calls) ==
    [i \in 1..Len(calls) |->
        [index |-> i,
         relativePath |-> Relative(Cwd, calls[i].filePath),
         line |-> calls[i].line]]

-----------------------------------------------------------------------------
(* The cache (a Map) and the values calls return.                          *)

NoObj == [id |-> 0, calls |-> <<>>]
EmptyMap == [p \in {} |-> NoObj]

\* a key that joins the working directory and the spelling the caller used,
\* '.' and '..' kept
SpellingAsKey(entryFile) ==
    IF entryFile.abs THEN entryFile.segs ELSE Cwd \o entryFile.segs

\* const resolvedPath = pathLib.resolve(entryFile): the key of the cache
ResolvedKey(entryFile) == ResolveCwd(entryFile)

\* a cache whose lookups always miss
CacheNeverHas(m, resolvedPath) == FALSE

\* parseParamsCache.has(resolvedPath)
CacheHas(m, resolvedPath) == resolvedPath \in DOMAIN m

\* parseParamsCache.set(resolvedPath, value)
CacheSet(m, resolvedPath, value) ==
    [p \in DOMAIN m \cup {resolvedPath} |->
        IF p = resolvedPath THEN value ELSE m[p]]

\* a delete that drops every entry
CacheDeleteAll(m, resolvedPath) == [p \in {} |-> NoObj]

\* parseParamsCache.delete(resolvedPath)
CacheDelete(m, resolvedPath) == [p \in DOMAIN m \ {resolvedPath} |-> m[p]]

\* parseParamsCache.clear()
CacheClear(m) == EmptyMap

\* a new array: its identity and its elements
NewArray(id, calls) == [id |-> id, calls |-> calls]

NoReturn == [kind |-> "none", id |-> 0, val |-> <<>>]
Threw == [kind |-> "threw", id |-> 0, val |-> <<>>]
Void == [kind |-> "void", id |-> 0, val |-> <<>>]
ReturnedFiles(files) == [kind |-> "files", id |-> 0, val |-> files]
ReturnedPath(path) == [kind |-> "path", id |-> 0, val |-> path]

\* analyzeParseParamsData returns the array itself, analyzeParseParams its banner
Returned(fn, obj) ==
    IF fn = "analyzeParseParams"
    THEN [kind |-> "banner", id |-> 0, val |-> formatParseParamsForDocs(obj.calls)]
    ELSE [kind |-> "calls", id |-> obj.id, val |-> obj.calls]

Op(fn, arg, dir) == [fn |-> fn, arg |-> arg, dir |-> dir]

-----------------------------------------------------------------------------
(* The calls, step by step.                                                *)

\* a catch block that returns the empty array without caching it
CatchWithoutCaching(fn, arg, w) ==
    LET emptyResult == NewArray(nextId, <<>>) IN
    /\ warned' = Append(w, PipelineWarning)
    /\ cache' = cache
    /\ nextId' = nextId + 1
    /\ ret' = Returned(fn, emptyResult)
    /\ pc' = "idle"

\* the catch block of getParseParamsFromCode: warn, cache a new empty array
CatchPipeline(fn, arg, w) ==
    LET emptyResult == NewArray(nextId, <<>>) IN
    /\ warned' = Append(w, PipelineWarning)
    /\ cache' = CacheSet(cache, ResolvedKey(arg), emptyResult)
    /\ nextId' = nextId + 1
    /\ ret' = Returned(fn, emptyResult)
    /\ pc' = "idle"

\* after collectImports was entered with outcome l: go on walking, or unwind
Continue(l, fn, arg, w) ==
    /\ SetLocals(IF l.threw THEN [l EXCEPT !.stack = <<>>] ELSE l)
    /\ IF ~l.threw
       THEN /\ pc' = "discover"
            /\ warned' = w
            /\ UNCHANGED <<cache, nextId, ret>>
       ELSE IF fn = "getSourceFilesFromEntry"
       THEN /\ pc' = "idle"
            /\ warned' = w
            /\ ret' = Threw
            /\ UNCHANGED <<cache, nextId>>
       ELSE CatchPipeline(fn, arg, w)

\* getSourceFilesFromEntry(entryFile), called directly
StartGetSourceFiles(entryFile) ==
    /\ pc = "idle"
    /\ op' = Op("getSourceFilesFromEntry", entryFile, Cwd)
    /\ Continue(CollectEnter(ResolveCwd(entryFile), FreshLocals),
                "getSourceFilesFromEntry", entryFile, <<>>)
    /\ UNCHANGED fs
    /\ UNCHANGED logVars

\* analyzeParseParams / analyzeParseParamsData -> getParseParamsFromCode
StartGetParseParams(fn, entryFile) ==
    LET resolvedPath == ResolvedKey(entryFile) IN
    /\ pc = "idle"
    /\ op' = Op(fn, entryFile, Cwd)
    /\ IF CacheHas(cache, resolvedPath)
       THEN /\ ret' = Returned(fn, cache[resolvedPath])
            /\ SetLocals(FreshLocals)
            /\ warned' = <<>>
            /\ UNCHANGED <<cache, nextId, pc>>
       ELSE /\ nextId <= MaxObjs
            /\ Continue(CollectEnter(ResolveCwd(entryFile), FreshLocals),
                        fn, entryFile, <<>>)
    /\ UNCHANGED fs
    /\ UNCHANGED logVars

\* one reference of the innermost file: resolve it and, if it resolves,
\* call collectImports on the target
VisitReference ==
    /\ pc = "discover"
    /\ stack # <<>>
    /\ stack[Len(stack)].refs # <<>>
    /\ LET top == stack[Len(stack)]
           target == resolveModuleSpecifier(Head(top.refs), top.fromDir)
           advanced == [Locals EXCEPT
                           !.stack = [stack EXCEPT ![Len(stack)].refs = Tail(@)]]
           l == IF target # NoPath THEN CollectEnter(target, advanced)
                ELSE advanced
       IN Continue(l, op.fn, op.arg, warned)
    /\ UNCHANGED <<fs, op>>
    /\ UNCHANGED logVars

\* the innermost collectImports has walked its whole tree and returns
ReturnFromCollect ==
    /\ pc = "discover"
    /\ stack # <<>>
    /\ stack[Len(stack)].refs = <<>>
    /\ stack' = SubSeq(stack, 1, Len(stack) - 1)
    /\ UNCHANGED <<fs, cache, nextId, pc, op, visited, result, reads, ret, warned>>
    /\ UNCHANGED logVars

\* getSourceFilesFromEntry returns its list: to the caller, or to the driver
FinishDiscover ==
    /\ pc = "discover"
    /\ stack = <<>>
    /\ IF op.fn = "getSourceFilesFromEntry"
       THEN pc' = "idle" /\ ret' = ReturnedFiles(result)
       ELSE pc' = "scan" /\ ret' = ret
    /\ UNCHANGED <<fs, cache, nextId, op, stack, visited, result, reads, warned>>
    /\ UNCHANGED logVars

\* the driver scans the discovered files, stores the aggregate and returns it
Aggregate ==
    /\ pc = "scan"
    /\ LET sourceFiles == result
           allCalls == NewArray(nextId, ScanAll(sourceFiles))
       IN /\ warned' = warned \o ScanWarnings(sourceFiles)
          /\ cache' = CacheSet(cache, ResolvedKey(op.arg), allCalls)
          /\ nextId' = nextId + 1
          /\ ret' = Returned(op.fn, allCalls)
    /\ pc' = "idle"
    /\ UNCHANGED <<fs, op, stack, visited, result, reads>>
    /\ UNCHANGED logVars

clearParseParamsCache ==
    /\ pc = "idle"
    /\ op' = Op("clearParseParamsCache", NoSpec, Cwd)
    /\ cache' = CacheClear(cache)
    /\ ret' = Void
    /\ SetLocals(FreshLocals)
    /\ warned' = <<>>
    /\ UNCHANGED <<fs, nextId, pc>>
    /\ UNCHANGED logVars

clearParseParamsCacheEntry(entryFile) ==
    /\ pc = "idle"
    /\ op' = Op("clearParseParamsCacheEntry", entryFile, Cwd)
    /\ cache' = CacheDelete(cache, ResolvedKey(entryFile))
    /\ ret' = Void
    /\ SetLocals(FreshLocals)
    /\ warned' = <<>>
    /\ UNCHANGED <<fs, nextId, pc>>
    /\ UNCHANGED logVars

\* resolveModuleSpecifier applied to one specifier
ResolveCall(specifier, fromDir) ==
    /\ pc = "idle"
    /\ op' = Op("resolveModuleSpecifier", specifier, fromDir)
    /\ ret' = ReturnedPath(resolveModuleSpecifier(specifier, fromDir))
    /\ UNCHANGED <<fs, cache, nextId, pc, stack, visited, result, reads, warned>>
    /\ UNCHANGED logVars

-----------------------------------------------------------------------------
(* File systems the calls are run against.                                 *)

File(ast) == [readable |-> TRUE, ast |-> ast, scanThrows |-> FALSE]

InCwd(segs) == Cwd \o segs
Here(segs) == PathStr(FALSE, <<DOT>> \o segs)        \* './...'
Up(segs) == PathStr(FALSE, <<DOTDOT>> \o segs)       \* '../...'
Package(name) == PathStr(FALSE, <<Seg(name, "")>>)   \* a packaged module
Plain(segs) == PathStr(FALSE, segs)                  \* 'a.ts' as a caller spells it

ParseParams(pos, line, kids) ==
    CallExpression(pos, line, "parseParams", FALSE, NoSpec, kids)
Require(pos, line, spec) == CallExpression(pos, line, "require", TRUE, spec, <<>>)
DynamicImport(pos, line, spec) ==
    CallExpression(pos, line, "import", TRUE, spec, <<>>)

aTs == Seg("a", ".ts")
bTs == Seg("b", ".ts")
bJs == Seg("b", ".js")
cTs == Seg("c", ".ts")
dDat == Seg("d", ".dat")
eTs == Seg("e", ".ts")
libDir == Seg("lib", "")

\* a.ts, in four shapes
EntryAst(variant) ==
    CASE variant = 1 ->
           SourceFile(<<ImportDeclaration(0, 0, Here(<<Seg("b", "")>>)),
                        ImportDeclaration(10, 1, Here(<<Seg("c", "")>>)),
                        ParseParams(20, 2, <<ParseParams(30, 3, <<>>)>>)>>)
      [] variant = 2 ->
           SourceFile(<<CallExpression(0, 0, "", TRUE, Here(<<eTs>>),
                            <<Require(5, 0, Here(<<Seg("c", "")>>)),
                              DynamicImport(15, 1, Here(<<Seg("b", "")>>))>>),
                        ParseParams(20, 2, <<>>)>>)
      [] variant = 3 ->
           SourceFile(<<ImportDeclaration(0, 0, Here(<<dDat>>)),
                        ImportDeclaration(10, 1, Here(<<Seg("b", "")>>)),
                        ParseParams(20, 2, <<>>)>>)
      [] OTHER ->
           SourceFile(<<ImportDeclaration(0, 0, Package("b")),
                        ImportDeclaration(10, 1, Here(<<Seg("missing", "")>>)),
                        ImportDeclaration(20, 2, Here(<<libDir>>)),
                        CallExpression(25, 3, "require", FALSE, NoSpec, <<>>),
                        ParseParams(30, 4, <<>>)>>)

ScenarioFs(variant, bCycle, dReadable, cScanThrows) ==
    LET bAst == IF bCycle
                THEN SourceFile(<<ImportDeclaration(0, 0, Here(<<Seg("a", "")>>)),
                                  ImportDeclaration(10, 1, Here(<<Seg("c", "")>>)),
                                  ParseParams(20, 5, <<>>)>>)
                ELSE SourceFile(<<ImportDeclaration(0, 0, Here(<<Seg("c", "")>>)),
                                  ParseParams(20, 5, <<>>)>>)
        cAst == SourceFile(<<ParseParams(0, 0, <<>>), ParseParams(10, 0, <<>>)>>)
        eAst == SourceFile(<<ImportDeclaration(0, 0, Up(<<Seg("proj", ""), cTs>>)),
                             ParseParams(10, 7, <<>>)>>)
        libAst == SourceFile(<<ImportDeclaration(0, 0, Up(<<Seg("c", "")>>)),
                               ParseParams(10, 1, <<>>)>>)
    IN (InCwd(<<aTs>>) :> File(EntryAst(variant)))
       @@ (InCwd(<<bTs>>) :> File(bAst))
       @@ (InCwd(<<bJs>>) :> File(SourceFile(<<ParseParams(0, 9, <<>>)>>)))
       @@ (InCwd(<<cTs>>) :> [File(cAst) EXCEPT !.scanThrows = cScanThrows])
       @@ (InCwd(<<dDat>>) :> [File(SourceFile(<<>>)) EXCEPT !.readable = dReadable])
       @@ (InCwd(<<eTs>>) :> File(eAst))
       @@ (InCwd(<<libDir, Seg("index", ".ts")>>) :> File(libAst))
       @@ (InCwd(<<libDir, Seg("index", ".js")>>) :> File(SourceFile(<<>>)))

Scenarios ==
    {ScenarioFs(v, bc, dr, cs) :
        v \in 1..4, bc \in BOOLEAN, dr \in BOOLEAN, cs \in BOOLEAN}

\* the entry paths the engine's callers pass
EntryArgs == {Plain(<<aTs>>), Here(<<aTs>>), Plain(<<eTs>>)}

\* generated files: the i-th reference is an import declaration, a require
\* call or a dynamic import in turn
ReferenceNode(i, spec) ==
    CASE i % 3 = 1 -> ImportDeclaration(10 * i, i, spec)
      [] i % 3 = 2 -> Require(10 * i, i, spec)
      [] OTHER -> DynamicImport(10 * i, i, spec)

GeneratedAst(specs) ==
    SourceFile([i \in 1..Len(specs) |-> ReferenceNode(i, specs[i])])

SeqsUpTo(S, n) == UNION {[1..k -> S] : k \in 0..n}

WalkFs(aRefs, bRefs, cRefs, cReadable) ==
    (InCwd(<<aTs>>) :> File(GeneratedAst(aRefs)))
    @@ (InCwd(<<bTs>>) :> File(GeneratedAst(bRefs)))
    @@ (InCwd(<<cTs>>) :> [File(GeneratedAst(cRefs)) EXCEPT !.readable = cReadable])

\* a.ts holds up to MaxRefs references, b.ts and c.ts one fewer
WalkFamily ==
    {WalkFs(ar, br, cr, rd) :
        ar \in SeqsUpTo({Here(<<Seg("b", "")>>), Here(<<Seg("c", "")>>),
                         Package("b"), Here(<<Seg("missing", "")>>)}, MaxRefs),
        br \in SeqsUpTo({Here(<<Seg("a", "")>>), Here(<<Seg("c", "")>>)},
                        MaxRefs - 1),
        cr \in SeqsUpTo({Here(<<Seg("b", "")>>), Here(<<cTs>>)}, MaxRefs - 1),
        rd \in BOOLEAN}

WalkArgs == {Plain(<<aTs>>), Here(<<cTs>>), Plain(<<Seg("nope", ".ts")>>)}

\* the files resolveModuleSpecifier probes for './b' in the working directory
ProbedPaths ==
    {AddExt(InCwd(<<Seg("b", "")>>), extensions[i]) : i \in 1..Len(extensions)}
    \cup {JoinIndex(InCwd(<<Seg("b", "")>>), extensions[i]) :
             i \in 1..Len(extensions)}

ResolveFamily ==
    {[p \in S |-> File(SourceFile(<<>>))] :
        S \in {T \in SUBSET ProbedPaths : Cardinality(T) <= MaxExisting}}

ResolveSpecs ==
    {Here(<<Seg("b", "")>>), Here(<<bJs>>), Here(<<Seg("b", ".tsx")>>),
     Package("b"), Up(<<Seg("proj", ""), Seg("b", "")>>),
     Here(<<Seg("b", ""), Seg("index", "")>>), Here(<<Seg("c", "")>>)}

ResolveDirs == {Cwd, InCwd(<<Seg("b", "")>>)}

-----------------------------------------------------------------------------
(* The log utility (src/utils/log.ts): the level gate, the queue of        *)
(* messages and its batch timer. A level argument is a string or a number; *)
(* a message is known by the number of the log() call that passed it.      *)

\* how many calls of log() may choose their level freely
MaxLogCalls == 2

MAX_QUEUE_SIZE == 20

\* a level argument: a string, or a number
Str(s) == [isString |-> TRUE, s |-> s, n |-> 0]
Num(n) == [isString |-> FALSE, s |-> "", n |-> n]

parseLogLevel(level) ==
    CASE level \in {"debug", "0"} -> 0
      [] level \in {"info", "1"} -> 1
      [] level \in {"warn", "2"} -> 2
      [] level \in {"error", "3"} -> 3
      [] level \in {"emergency", "4"} -> 4
      [] level \in {"silent", "10"} -> 10
      [] OTHER -> 1

\* null, for queueTimer and currentQueueLevel
NoTimer == 0
NoLevel == -1

\* the state of the module as one record
Logger ==
    [logLevel |-> logLevel, logQueue |-> logQueue, queueTimer |-> queueTimer,
     currentQueueLevel |-> currentQueueLevel, timers |-> timers,
     customScript |-> customScript]

SetLogger(l) ==
    /\ logLevel' = l.logLevel
    /\ logQueue' = l.logQueue
    /\ queueTimer' = l.queueTimer
    /\ currentQueueLevel' = l.currentQueueLevel
    /\ timers' = l.timers
    /\ customScript' = l.customScript

\* the module when it is loaded: let logLevel = parseLogLevel(LOG_LEVEL_INFO)
InitLogger ==
    /\ logLevel = parseLogLevel("info")
    /\ logQueue = <<>>
    /\ queueTimer = NoTimer
    /\ currentQueueLevel = NoLevel
    /\ timers = {}
    /\ customScript = <<>>
    /\ logged = <<>>

\* a flush that leaves the timer alone
FlushKeepingTimer(l) ==
    IF l.logQueue = <<>> THEN l
    ELSE [l EXCEPT
            !.customScript =
                Append(@, [i \in DOMAIN l.logQueue |-> l.logQueue[i].message]),
            !.logQueue = <<>>,
            !.currentQueueLevel = NoLevel]

flushLogQueue(l) ==
    IF l.logQueue = <<>> THEN l
    ELSE [l EXCEPT
            !.customScript =
                Append(@, [i \in DOMAIN l.logQueue |-> l.logQueue[i].message]),
            !.logQueue = <<>>,
            !.currentQueueLevel = NoLevel,
            !.timers = IF l.queueTimer # NoTimer THEN @ \ {l.queueTimer} ELSE @,
            !.queueTimer = NoTimer]

\* a queue that is flushed only when it holds more than MAX_QUEUE_SIZE
QueueOverFull(queue) == Len(queue) > MAX_QUEUE_SIZE

\* logQueue.length >= MAX_QUEUE_SIZE
QueueFull(queue) == Len(queue) >= MAX_QUEUE_SIZE

\* timer is the identity of the timer setTimeout would make
addToQueue(l, message, level, timer) ==
    LET flushed ==
            IF l.currentQueueLevel # NoLevel /\ l.currentQueueLevel # level
            THEN flushLogQueue(l) ELSE l
        pushed ==
            [flushed EXCEPT
                !.logQueue = Append(@, [message |-> message, level |-> level]),
                !.currentQueueLevel = level]
    IN IF QueueFull(pushed.logQueue) THEN flushLogQueue(pushed)
       ELSE [pushed EXCEPT
                !.timers = (IF pushed.queueTimer # NoTimer
                            THEN @ \ {pushed.queueTimer} ELSE @) \cup {timer},
                !.queueTimer = timer]

\* if (level > parseLogLevel(LOG_LEVEL_WARN)) level = parseLogLevel(LOG_LEVEL_WARN)
LevelCapped(level) ==
    IF level > parseLogLevel("warn") THEN parseLogLevel("warn") ELSE level

\* the number a level argument stands for
LevelNumber(level) == IF level.isString THEN parseLogLevel(level.s) ELSE level.n

log(l, message, level, timer) ==
    LET capped == LevelCapped(LevelNumber(level))
    IN IF capped >= l.logLevel THEN addToQueue(l, message, capped, timer) ELSE l

setLogLevel(l, level) == [l EXCEPT !.logLevel = LevelNumber(level)]

UnchangedEngine ==
    UNCHANGED <<fs, cache, nextId, pc, op, stack, visited, result, reads, ret,
                warned>>

\* the arguments of log() and setLogLevel()
LevelArgs == {Str("debug"), Str("verbose"), Str("warn"), Str("error"), Num(10)}
SetLevelArgs == {Str("debug"), Num(3)}

\* a call of log(): the first calls choose their level freely; later calls
\* repeat the level of the call before them while the queue is filling
LogCall(level) ==
    /\ \/ Len(logged) < MaxLogCalls
       \/ /\ logged # <<>>
          /\ logged[Len(logged)].level = level
          /\ logQueue # <<>>
          /\ Len(logged) < MaxLogCalls + MAX_QUEUE_SIZE
    /\ LET message == Len(logged) + 1
       IN /\ SetLogger(log(Logger, message, level, message))
          /\ logged' = Append(logged, [message |-> message, level |-> level,
                                       logLevel |-> logLevel])
    /\ UnchangedEngine

\* a call of setLogLevel(), among the calls of log() that choose freely
SetLogLevelCall(level) ==
    /\ Len(logged) < MaxLogCalls
    /\ LevelNumber(level) # logLevel
    /\ SetLogger(setLogLevel(Logger, level))
    /\ UNCHANGED logged
    /\ UnchangedEngine

\* a pending timer expires: the runtime drops it and runs flushLogQueue
TimerExpires ==
    /\ \E timer \in timers :
          SetLogger(flushLogQueue([Logger EXCEPT !.timers = @ \ {timer}]))
    /\ UNCHANGED logged
    /\ UnchangedEngine

-----------------------------------------------------------------------------
(* Specifications.                                                         *)

InitProcess ==
    /\ cache = EmptyMap
    /\ nextId = 1
    /\ pc = "idle"
    /\ op = Op("none", NoSpec, Cwd)
    /\ stack = <<>>
    /\ visited = {}
    /\ result = <<>>
    /\ reads = <<>>
    /\ ret = NoReturn
    /\ warned = <<>>
    /\ InitLogger

\* the engine with its cache, over the scenario file systems
Init == fs \in Scenarios /\ InitProcess

Next ==
    \/ \E e \in EntryArgs : StartGetParseParams("analyzeParseParamsData", e)
    \/ \E e \in EntryArgs : StartGetParseParams("analyzeParseParams", e)
    \/ \E e \in EntryArgs : StartGetSourceFiles(e)
    \/ VisitReference
    \/ ReturnFromCollect
    \/ FinishDiscover
    \/ Aggregate
    \/ clearParseParamsCache
    \/ \E e \in EntryArgs : clearParseParamsCacheEntry(e)

Spec == Init /\ [][Next]_vars

\* the module graph resolver alone, over generated import graphs
InitWalk == fs \in WalkFamily /\ InitProcess

NextWalk ==
    \/ \E e \in WalkArgs : StartGetSourceFiles(e)
    \/ VisitReference
    \/ ReturnFromCollect
    \/ FinishDiscover

SpecWalk == InitWalk /\ [][NextWalk]_vars

\* resolveModuleSpecifier alone, over the files it probes
InitResolve == fs \in ResolveFamily /\ InitProcess

NextResolve == \E s \in ResolveSpecs, d \in ResolveDirs : ResolveCall(s, d)

SpecResolve == InitResolve /\ [][NextResolve]_vars

-----------------------------------------------------------------------------
(* What the claims speak of, stated without the engine's algorithms: the   *)
(* references a file declares, the file a local reference denotes, the     *)
(* files reachable from an entry.                                          *)

Range(f) == {f[i] : i \in DOMAIN f}
NoDuplicates(q) == \A i, j \in DOMAIN q : i # j => q[i] # q[j]
Min(S) == CHOOSE m \in S : \A n \in S : m <= n
Last(q) == q[Len(q)]

RECURSIVE AllNodes(_)
AllNodes(node) == {node} \cup UNION {AllNodes(k) : k \in Range(node.kids)}

RECURSIVE InSourceOrder(_)
InSourceOrder(nodes) ==
    IF nodes = {} THEN <<>>
    ELSE LET first == CHOOSE n \in nodes : \A k \in nodes : n.pos <= k.pos
         IN <<first>> \o InSourceOrder(nodes \ {first})

IsImportNode(n) ==
    /\ n.argLit
    /\ \/ n.kind = "ImportDeclaration"
       \/ n.kind = "CallExpression" /\ n.callee \in {"import", "require"}

\* the specifiers a file imports, requires or dynamically imports, in source order
DeclaredReferences(f) ==
    LET nodes == InSourceOrder({n \in AllNodes(fs[f].ast) : IsImportNode(n)})
    IN [i \in 1..Len(nodes) |-> nodes[i].spec]

IsLocalSpecifier(spec) ==
    ~spec.abs /\ spec.segs # <<>> /\ spec.segs[1].stem \in {".", ".."}

\* the candidates of an extensionless path: direct files, then index files
ProbeList(resolved) ==
    [i \in 1..(2 * Len(extensions)) |->
        IF i <= Len(extensions) THEN AddExt(resolved, extensions[i])
        ELSE JoinIndex(resolved, extensions[i - Len(extensions)])]

\* the file a reference denotes, NoPath if it denotes none
LocalTarget(spec, fromDir) ==
    IF ~IsLocalSpecifier(spec) THEN NoPath
    ELSE LET resolved == PathResolve(fromDir, spec)
             probes == ProbeList(resolved)
             existing == {i \in DOMAIN probes : ExistsSync(probes[i])}
         IN IF Extname(resolved) # ""
            THEN (IF ExistsSync(resolved) THEN resolved ELSE NoPath)
            ELSE IF existing = {} THEN NoPath ELSE probes[Min(existing)]

CanBeRead(f) == f \in DOMAIN fs /\ fs[f].readable

Imports(f) ==
    IF CanBeRead(f)
    THEN LET refs == DeclaredReferences(f)
         IN {LocalTarget(refs[i], Dirname(f)) : i \in DOMAIN refs} \ {NoPath}
    ELSE {}

RECURSIVE Closure(_)
Closure(S) ==
    LET T == S \cup UNION {Imports(f) : f \in S}
    IN IF T = S THEN S ELSE Closure(T)

ReachableFiles(entry) == IF ExistsSync(entry) THEN Closure({entry}) ELSE {}

EntryOf(o) == ResolveCwd(o.arg)

\* paths that exist: files and the directories above them
Existing == UNION {{SubSeq(q, 1, k) : k \in 0..Len(q)} : q \in DOMAIN fs}

-----------------------------------------------------------------------------
(* C5: on every local-import graph, cyclic ones included, the walk of      *)
(* getSourceFilesFromEntry terminates (every step of it lowers a pair of   *)
(* natural numbers), reads no file twice, and the list it returns holds    *)
(* exactly the files reachable from the entry, each once, each read once.  *)

RECURSIVE SumRefs(_)
SumRefs(frames) ==
    IF frames = <<>> THEN 0 ELSE Len(Head(frames).refs) + SumRefs(Tail(frames))

\* the paths not yet visited, and the work left in the open activations
Unvisited == Cardinality((Existing \cup {EntryOf(op)}) \ visited)
OpenWork == SumRefs(stack) + Len(stack)

WalkReturned ==
    pc = "idle" /\ op.fn = "getSourceFilesFromEntry" /\ ret.kind = "files"

C5_WalkState ==
    /\ NoDuplicates(reads)
    /\ NoDuplicates(result)
    /\ NoDuplicates([i \in DOMAIN stack |-> stack[i].file])
    /\ WalkReturned =>
          /\ Range(ret.val) = ReachableFiles(EntryOf(op))
          /\ NoDuplicates(ret.val)
          /\ Range(reads) = Range(ret.val)

\* the pair (Unvisited, OpenWork) falls in the lexicographic order
C5_WalkStep ==
    (pc = "discover" /\ pc' = "discover") =>
        \/ Unvisited' < Unvisited
        \/ Unvisited' = Unvisited /\ OpenWork' < OpenWork

C5_WalkTerminatesVisitingOnce == []C5_WalkState /\ [][C5_WalkStep]_vars

\* a returned walk of a graph in which a.ts and b.ts import each other and
\* c.ts imports b.ts
C5_Witness ==
    /\ WalkReturned
    /\ Len(ret.val) = 3
    /\ InCwd(<<bTs>>) \in Imports(InCwd(<<aTs>>))
    /\ InCwd(<<aTs>>) \in Imports(InCwd(<<bTs>>))
    /\ InCwd(<<bTs>>) \in Imports(InCwd(<<cTs>>))

-----------------------------------------------------------------------------
(* C6: the list getSourceFilesFromEntry returns starts with the resolved   *)
(* entry, and its files stand in depth-first first-visit order: ordered by *)
(* the first chain of imports, in source order, that reaches each file.    *)

FirstIndexOf(u, v) ==
    Min({i \in DOMAIN DeclaredReferences(u) :
            LocalTarget(DeclaredReferences(u)[i], Dirname(u)) = v})

\* the chains of imports from a file onward that pass no file twice
RECURSIVE SimplePathsFrom(_)
SimplePathsFrom(path) ==
    {path} \cup UNION {SimplePathsFrom(Append(path, v)) :
                          v \in Imports(Last(path)) \ Range(path)}

\* a chain as the positions, in each file, of the import it follows
ImportTrail(path) ==
    [i \in 1..(Len(path) - 1) |-> FirstIndexOf(path[i], path[i + 1])]

\* a trail comes before its extensions and before trails that turn later
RECURSIVE Precedes(_, _)
Precedes(a, b) ==
    IF a = <<>> THEN b # <<>>
    ELSE IF b = <<>> THEN FALSE
    ELSE \/ Head(a) < Head(b)
         \/ Head(a) = Head(b) /\ Precedes(Tail(a), Tail(b))

FirstTrail(entry, f) ==
    LET trails == {ImportTrail(q) :
                      q \in {r \in SimplePathsFrom(<<entry>>) : Last(r) = f}}
    IN CHOOSE t \in trails : \A u \in trails : u = t \/ Precedes(t, u)

C6_EntryFirstThenFirstVisitOrder ==
    WalkReturned =>
        /\ ret.val # <<>> => ret.val[1] = EntryOf(op)
        /\ \A i, j \in DOMAIN ret.val :
              i < j => Precedes(FirstTrail(EntryOf(op), ret.val[i]),
                                FirstTrail(EntryOf(op), ret.val[j]))

\* a.ts imports c.ts and then b.ts, and c.ts imports b.ts: b.ts stands where
\* the import in c.ts found it
C6_Witness ==
    /\ WalkReturned
    /\ ret.val = <<InCwd(<<aTs>>), InCwd(<<cTs>>), InCwd(<<bTs>>)>>
    /\ FirstIndexOf(InCwd(<<aTs>>), InCwd(<<cTs>>)) = 1
    /\ InCwd(<<bTs>>) \in Imports(InCwd(<<aTs>>))
    /\ InCwd(<<bTs>>) \in Imports(InCwd(<<cTs>>))

-----------------------------------------------------------------------------
(* C7: a reference that is not relative, or that denotes no existing file, *)
(* is passed over: the step that meets it visits, reads and adds nothing   *)
(* and goes on with the file's next reference; nothing is ever visited     *)
(* but the entry and the files that local references of listed files       *)
(* denote.                                                                 *)

C7_OnlyLocalTargets ==
    visited \cup Range(result)
        \subseteq {EntryOf(op)} \cup UNION {Imports(f) : f \in Range(result)}

C7_SkipStep ==
    (/\ pc = "discover"
     /\ stack # <<>>
     /\ Last(stack).refs # <<>>
     /\ LocalTarget(Head(Last(stack).refs), Last(stack).fromDir) = NoPath)
    => /\ pc' = "discover"
       /\ visited' = visited
       /\ result' = result
       /\ reads' = reads
       /\ warned' = warned
       /\ stack' = [stack EXCEPT ![Len(stack)].refs = Tail(@)]

C7_ForeignAndBrokenReferencesSkipped ==
    []C7_OnlyLocalTargets /\ [][C7_SkipStep]_vars

\* a.ts begins with a packaged or a broken import, and the walk still
\* returned a.ts and what its next import denotes
C7_Witness ==
    /\ WalkReturned
    /\ Len(ret.val) >= 2
    /\ ret.val[1] = InCwd(<<aTs>>)
    /\ DeclaredReferences(InCwd(<<aTs>>))[1]
          \in {Package("b"), Here(<<Seg("missing", "")>>)}

-----------------------------------------------------------------------------
(* C8: for a relative specifier without extension the resolver returns the *)
(* first existing candidate of: the six extensions as direct files, then   *)
(* the six as index files of the directory; null if none exists.           *)

C8_FirstExistingCandidateWins ==
    (/\ op.fn = "resolveModuleSpecifier"
     /\ IsLocalSpecifier(op.arg)
     /\ Extname(PathResolve(op.dir, op.arg)) = "")
    => LET probes == ProbeList(PathResolve(op.dir, op.arg))
           existing == {i \in DOMAIN probes : ExistsSync(probes[i])}
       IN /\ ret.kind = "path"
          /\ existing = {} => ret.val = NoPath
          /\ existing # {} =>
                \E k \in existing :
                    /\ ret.val = probes[k]
                    /\ \A i \in existing : k <= i

\* b.js wins over b.cjs and over b/index.ts
C8_Witness ==
    /\ op.fn = "resolveModuleSpecifier"
    /\ op.arg = Here(<<Seg("b", "")>>)
    /\ op.dir = Cwd
    /\ DOMAIN fs = {InCwd(<<bJs>>), InCwd(<<Seg("b", ".cjs")>>),
                    InCwd(<<Seg("b", ""), Seg("index", ".ts")>>)}
    /\ ret.val = InCwd(<<bJs>>)

-----------------------------------------------------------------------------
(* The cache claims.                                                       *)

GetFns == {"analyzeParseParams", "analyzeParseParamsData"}

\* the last call was a lookup that found its entry cached
WasHit == pc = "idle" /\ op.fn \in GetFns /\ visited = {}

\* the last call was a lookup that ran the extraction
WasComputed == pc = "idle" /\ op.fn \in GetFns /\ visited # {}

\* the extraction of this entry throws: its walk meets a file it cannot read
PipelineFails(entry) == \E f \in ReachableFiles(entry) : ~CanBeRead(f)

\* the step is a lookup that finds its entry cached and only returns it
ReturnsCached(p) ==
    /\ pc' = "idle"
    /\ visited' = {}
    /\ reads' = <<>>
    /\ result' = <<>>
    /\ warned' = <<>>
    /\ cache' = cache
    /\ nextId' = nextId
    /\ ret'.val = (IF op'.fn = "analyzeParseParamsData" THEN cache[p].calls
                   ELSE formatParseParamsForDocs(cache[p].calls))
    /\ op'.fn = "analyzeParseParamsData" =>
          ret'.kind = "calls" /\ ret'.id = cache[p].id

(* C1: a lookup that follows a lookup of the same entry returns the very   *)
(* object the first one returned and runs neither the walk nor the scan;   *)
(* a lookup that follows invalidate(entry) starts the extraction anew, and *)
(* every finished extraction stores and returns an array that is new.      *)

C1_IdsIssued ==
    /\ ret.id < nextId
    /\ \A p \in DOMAIN cache : cache[p].id >= 1 /\ cache[p].id < nextId
    /\ \A p, q \in DOMAIN cache : p # q => cache[p].id # cache[q].id

C1_SecondLookup ==
    (/\ pc = "idle"
     /\ op.fn \in GetFns
     /\ op'.fn \in GetFns
     /\ EntryOf(op') = EntryOf(op))
    => /\ EntryOf(op) \in DOMAIN cache
       /\ ReturnsCached(EntryOf(op))
       /\ op'.fn = op.fn => ret' = ret

C1_LookupAfterInvalidate ==
    (/\ pc = "idle"
     /\ op.fn = "clearParseParamsCacheEntry"
     /\ op'.fn \in GetFns
     /\ EntryOf(op') = EntryOf(op))
    => /\ EntryOf(op') \in visited'
       /\ pc' = "discover" \/ PipelineWarning \in Range(warned')

C1_ExtractionStoresNew ==
    (pc' = "idle" /\ op'.fn \in GetFns /\ visited' # {})
    => /\ EntryOf(op') \in DOMAIN cache'
       /\ cache'[EntryOf(op')].id = nextId
       /\ nextId' = nextId + 1
       /\ op'.fn = "analyzeParseParamsData" => ret'.id = nextId

C1_CachedUntilInvalidated ==
    /\ []C1_IdsIssued
    /\ [][C1_SecondLookup /\ C1_LookupAfterInvalidate /\ C1_ExtractionStoresNew]_vars

\* a.ts found cached with the second array ever made, the first one gone
C1_Witness ==
    /\ WasHit
    /\ op.fn = "analyzeParseParamsData"
    /\ EntryOf(op) = InCwd(<<aTs>>)
    /\ DOMAIN cache = {InCwd(<<aTs>>)}
    /\ ret.kind = "calls"
    /\ ret.id = 2
    /\ ret.val # <<>>

(* C2: when the extraction of an entry throws, an empty array is in the    *)
(* cache under the entry's resolved path once the lookup has returned; a   *)
(* later lookup of the entry returns it without running the extraction,    *)
(* and it stays cached until a call invalidates it.                        *)

C2_EmptyStored ==
    (pc = "idle" /\ op.fn \in GetFns)
    => \/ /\ EntryOf(op) \in DOMAIN cache
          /\ cache[EntryOf(op)].calls = <<>>
          /\ cache[EntryOf(op)].id >= 1
          /\ ret.val = <<>>
          /\ op.fn = "analyzeParseParamsData" => ret.id = cache[EntryOf(op)].id
          /\ visited # {} => PipelineWarning \in Range(warned)
       \/ ~PipelineFails(EntryOf(op))

C2_LaterLookup ==
    (pc = "idle" /\ op'.fn \in GetFns /\ EntryOf(op') \in DOMAIN cache)
    => ReturnsCached(EntryOf(op')) \/ ~PipelineFails(EntryOf(op'))

C2_KeptUntilInvalidated ==
    \A p \in DOMAIN cache :
        \/ p \in DOMAIN cache' /\ cache'[p] = cache[p]
        \/ pc = "idle" /\ op'.fn = "clearParseParamsCache"
        \/ pc = "idle" /\ op'.fn = "clearParseParamsCacheEntry"
                       /\ EntryOf(op') = p
        \/ ~PipelineFails(p)

C2_FailureCachedAsEmpty ==
    []C2_EmptyStored /\ [][C2_LaterLookup /\ C2_KeptUntilInvalidated]_vars

\* an entry whose extraction throws, found cached, empty, by a later lookup
C2_Witness ==
    /\ WasHit
    /\ op.fn = "analyzeParseParamsData"
    /\ PipelineFails(EntryOf(op))
    /\ ret.kind = "calls"
    /\ ret.val = <<>>
    /\ ret.id >= 1

(* C3: no call of an exported function ends by throwing.                   *)
C3_NoCallThrows == ret.kind # "threw"

(* C4: a file that cannot be read or scanned contributes no calls and      *)
(* costs no other file its calls: the result of an extraction holds the    *)
(* calls of every other file reachable from the entry.                     *)

CallsInSourceOrder(f) ==
    LET nodes == InSourceOrder({n \in AllNodes(fs[f].ast) :
                                   n.kind = "CallExpression"
                                   /\ n.callee = "parseParams"})
    IN [i \in 1..Len(nodes) |-> [filePath |-> f, line |-> nodes[i].line + 1]]

Sound(f) == CanBeRead(f) /\ ~fs[f].scanThrows

C4_OtherFilesStillScanned ==
    (pc = "idle" /\ op.fn = "analyzeParseParamsData" /\ ret.kind = "calls")
    => \A f \in ReachableFiles(EntryOf(op)) :
          /\ Sound(f) => Range(CallsInSourceOrder(f)) \subseteq Range(ret.val)
          /\ ~Sound(f) => \A i \in DOMAIN ret.val : ret.val[i].filePath # f

(* C9: the result of an extraction lists the calls file by file in the     *)
(* order the walk discovered the files, and the calls of one file in       *)
(* source order.                                                           *)

C9_DiscoveryThenSourceOrder ==
    (WasComputed /\ op.fn = "analyzeParseParamsData"
                 /\ PipelineWarning \notin Range(warned))
    => /\ ret.val = Concat([i \in DOMAIN result |->
                              IF FileWarning(result[i]) \in Range(warned)
                              THEN <<>> ELSE CallsInSourceOrder(result[i])])
       /\ \A i, j \in DOMAIN ret.val :
             i < j =>
                \E m, n \in DOMAIN result :
                    /\ result[m] = ret.val[i].filePath
                    /\ result[n] = ret.val[j].filePath
                    /\ m <= n
                    /\ m = n => ret.val[i].line <= ret.val[j].line

\* a.ts with a call nested in a call, then b.ts, then c.ts with two calls
C9_Witness ==
    /\ WasComputed
    /\ op.fn = "analyzeParseParamsData"
    /\ result = <<InCwd(<<aTs>>), InCwd(<<bTs>>), InCwd(<<cTs>>)>>
    /\ Len(ret.val) = 5
    /\ ret.val[1].line < ret.val[2].line

(* C10: invalidate(entry) takes that entry, and nothing else, out of the   *)
(* cache; invalidateAll() empties it; neither computes anything; a lookup  *)
(* of another entry after invalidate(entry) still finds its object.        *)

ComputesNothing ==
    /\ pc' = "idle"
    /\ nextId' = nextId
    /\ visited' = {}
    /\ reads' = <<>>
    /\ result' = <<>>
    /\ warned' = <<>>

C10_InvalidateOne ==
    (pc = "idle" /\ op'.fn = "clearParseParamsCacheEntry")
    => /\ DOMAIN cache' = DOMAIN cache \ {EntryOf(op')}
       /\ \A q \in DOMAIN cache' : cache'[q] = cache[q]
       /\ ComputesNothing

C10_InvalidateAll ==
    (pc = "idle" /\ op'.fn = "clearParseParamsCache")
    => DOMAIN cache' = {} /\ ComputesNothing

C10_OthersStillCached ==
    (/\ pc = "idle"
     /\ op.fn = "clearParseParamsCacheEntry"
     /\ op'.fn \in GetFns
     /\ EntryOf(op') # EntryOf(op)
     /\ EntryOf(op') \in DOMAIN cache)
    => ReturnsCached(EntryOf(op'))

C10_InvalidationFrame ==
    [][C10_InvalidateOne /\ C10_InvalidateAll /\ C10_OthersStillCached]_vars

\* a.ts was just invalidated while e.ts stays cached
C10_Witness ==
    /\ pc = "idle"
    /\ op.fn = "clearParseParamsCacheEntry"
    /\ EntryOf(op) = InCwd(<<aTs>>)
    /\ DOMAIN cache = {InCwd(<<eTs>>)}
    /\ nextId = 3

(* C11: the cache is keyed by the resolved absolute path of the entry. Its *)
(* keys are resolved paths; a lookup that follows a lookup of the same     *)
(* file under another spelling is a hit that returns the same object; and  *)
(* invalidating under one spelling leaves nothing cached for the other,    *)
(* so that a lookup under the other spelling runs the extraction anew.     *)

\* the two calls name one file by two different spellings
OtherSpelling ==
    op'.arg # op.arg /\ EntryOf(op') = EntryOf(op)

C11_KeysResolved ==
    /\ \A p \in DOMAIN cache :
          /\ \A i \in DOMAIN p : p[i].stem \notin {".", ".."}
          /\ SubSeq(p, 1, Len(Cwd)) = Cwd
    /\ (pc = "idle" /\ op.fn \in GetFns) => EntryOf(op) \in DOMAIN cache
    /\ (pc = "idle" /\ op.fn = "clearParseParamsCacheEntry") =>
          EntryOf(op) \notin DOMAIN cache

C11_HitBySpelling ==
    (pc = "idle" /\ op.fn \in GetFns /\ op'.fn \in GetFns /\ OtherSpelling)
    => /\ ReturnsCached(EntryOf(op))
       /\ (op.fn = "analyzeParseParamsData"
            /\ op'.fn = "analyzeParseParamsData") => ret'.id = ret.id

C11_EvictBySpelling ==
    (/\ pc = "idle"
     /\ op.fn \in GetFns
     /\ op'.fn = "clearParseParamsCacheEntry"
     /\ OtherSpelling)
    => /\ DOMAIN cache' = DOMAIN cache \ {EntryOf(op)}
       /\ \A e \in EntryArgs :
             ResolveCwd(e) = EntryOf(op) => ResolveCwd(e) \notin DOMAIN cache'

C11_MissAfterEvictBySpelling ==
    (/\ pc = "idle"
     /\ op.fn = "clearParseParamsCacheEntry"
     /\ op'.fn \in GetFns
     /\ OtherSpelling)
    => /\ visited' # {}
       /\ pc' = "discover" \/ PipelineWarning \in Range(warned')

C11_KeyedByResolvedPath ==
    /\ []C11_KeysResolved
    /\ [][C11_HitBySpelling /\ C11_EvictBySpelling
            /\ C11_MissAfterEvictBySpelling]_vars

\* './a.ts' found cached while one array only was ever made, stored once
\* under the resolved path of a.ts
C11_Witness ==
    /\ WasHit
    /\ op.arg = Here(<<aTs>>)
    /\ op.fn = "analyzeParseParamsData"
    /\ DOMAIN cache = {InCwd(<<aTs>>)}
    /\ ret.id = 1
    /\ nextId = 2
    /\ ret.val # <<>>

-----------------------------------------------------------------------------
(* The default-value evaluator: resolveDefaultValue over initializer       *)
(* expressions. Source text is a sequence of tokens; numbers are exact     *)
(* fractions (the operands covered are small integers, on which the        *)
(* arithmetic of doubles decides the same zero tests).                     *)

MaxNest == 7
MaxOperands == 3

maxDepth == 5

Abs(x) == IF x < 0 THEN -x ELSE x

RECURSIVE GCD(_, _)
GCD(a, b) == IF b = 0 THEN a ELSE GCD(b, a % b)

\* a number: a fraction in lowest terms, the denominator positive
Rat(n, d) ==
    LET g == GCD(Abs(n), Abs(d))
        sgn == IF d < 0 THEN -1 ELSE 1
    IN [n |-> (sgn * n) \div g, d |-> (sgn * d) \div g]

Whole(n) == [n |-> n, d |-> 1]
NaN == [n |-> 0, d |-> 0]
Negate(a) == [n |-> -a.n, d |-> a.d]
Plus(a, b) == Rat(a.n * b.d + b.n * a.d, a.d * b.d)
Minus(a, b) == Rat(a.n * b.d - b.n * a.d, a.d * b.d)
Times(a, b) == Rat(a.n * b.n, a.d * b.d)
Divide(a, b) == Rat(a.n * b.d, a.d * b.n)
Truncate(a) == (IF a.n < 0 THEN -1 ELSE 1) * (Abs(a.n) \div a.d)
\* the remainder takes the sign of the dividend
Remainder(a, b) == Minus(a, Times(b, Whole(Truncate(Divide(a, b)))))

\* tokens of source text
NumTok(n) == [t |-> "num", v |-> "", n |-> n, q |-> ""]
WordTok(w) == [t |-> "word", v |-> w, n |-> NaN, q |-> ""]
PunctTok(c) == [t |-> "punct", v |-> c, n |-> NaN, q |-> ""]
StrTok(chars, quote) == [t |-> "str", v |-> chars, n |-> NaN, q |-> quote]

\* String(number)
String(v) ==
    IF v.n < 0 THEN <<PunctTok("-"), NumTok(Negate(v))>> ELSE <<NumTok(v)>>

\* Number(String(s).trim()), NaN when the text is no number
Number(s) ==
    IF Len(s) = 1 /\ s[1].t = "num" THEN s[1].n
    ELSE IF Len(s) = 2 /\ s[1] = PunctTok("-") /\ s[2].t = "num"
    THEN Negate(s[2].n)
    ELSE IF Len(s) = 2 /\ s[1] = PunctTok("+") /\ s[2].t = "num" THEN s[2].n
    ELSE NaN

IsFinite(v) == v # NaN

isNumericValue(s) == s # <<>> /\ IsFinite(Number(s))

\* expressions before they are placed in a source text
NumericLiteral(n) ==
    [kind |-> "NumericLiteral", text |-> NumTok(Whole(n)), operator |-> "",
     kids |-> <<>>]
StringLiteral(chars, quote) ==
    [kind |-> "StringLiteral", text |-> StrTok(chars, quote), operator |-> "",
     kids |-> <<>>]
Keyword(word) ==
    [kind |-> (CASE word = "true" -> "TrueKeyword"
                 [] word = "false" -> "FalseKeyword"
                 [] OTHER -> "NullKeyword"),
     text |-> WordTok(word), operator |-> "", kids |-> <<>>]
Identifier(name) ==
    [kind |-> "Identifier", text |-> WordTok(name), operator |-> "",
     kids |-> <<>>]
ParenthesizedExpression(e) ==
    [kind |-> "ParenthesizedExpression", text |-> PunctTok("("),
     operator |-> "", kids |-> <<e>>]
BinaryExpression(left, operator, right) ==
    [kind |-> "BinaryExpression", text |-> PunctTok(operator),
     operator |-> operator, kids |-> <<left, right>>]
PrefixUnaryExpression(operator, operand) ==
    [kind |-> "PrefixUnaryExpression", text |-> PunctTok(operator),
     operator |-> operator, kids |-> <<operand>>]

\* the source text of an expression
RECURSIVE SourceText(_)
SourceText(e) ==
    CASE e.kind = "ParenthesizedExpression" ->
            <<PunctTok("(")>> \o SourceText(e.kids[1]) \o <<PunctTok(")")>>
      [] e.kind = "BinaryExpression" ->
            SourceText(e.kids[1]) \o <<e.text>> \o SourceText(e.kids[2])
      [] e.kind = "PrefixUnaryExpression" ->
            <<e.text>> \o SourceText(e.kids[1])
      [] OTHER -> <<e.text>>

\* the node the parser makes of an expression that starts at offset pos
RECURSIVE NodeAt(_, _)
NodeAt(e, pos) ==
    LET end == pos + Len(SourceText(e))
        kids ==
            CASE e.kind = "ParenthesizedExpression" ->
                    <<NodeAt(e.kids[1], pos + 1)>>
              [] e.kind = "BinaryExpression" ->
                    <<NodeAt(e.kids[1], pos),
                      NodeAt(e.kids[2], pos + Len(SourceText(e.kids[1])) + 1)>>
              [] e.kind = "PrefixUnaryExpression" ->
                    <<NodeAt(e.kids[1], pos + 1)>>
              [] OTHER -> <<>>
    IN [kind |-> e.kind, text |-> e.text, operator |-> e.operator,
        kids |-> kids, pos |-> pos, end |-> end]

NoNode ==
    [kind |-> "none", text |-> PunctTok(""), operator |-> "", kids |-> <<>>,
     pos |-> 0, end |-> 0]

\* const name = initializer; with the type the checker gives name
VariableDeclaration(name, typeString, initializer) ==
    [name |-> name, typeString |-> typeString, initializer |-> initializer]

DeclarationText(decl) ==
    <<WordTok("const"), WordTok(decl.name), PunctTok("=")>>
    \o SourceText(decl.initializer) \o <<PunctTok(";")>>

RECURSIVE DeclarationsText(_)
DeclarationsText(decls) ==
    IF decls = <<>> THEN <<>>
    ELSE DeclarationText(Head(decls)) \o DeclarationsText(Tail(decls))

\* the file: its declarations, then parseParams({ key: initializer })
Program(decls, initializer, checker) ==
    LET head == decls.text
        call == <<WordTok("parseParams"), PunctTok("("), PunctTok("{"),
                  WordTok("key"), PunctTok(":")>>
    IN [sourceCode |-> head \o call \o SourceText(initializer)
                      \o <<PunctTok("}"), PunctTok(")")>>,
        checker |-> checker,
        symbols |-> decls.symbols,
        initializer |-> NodeAt(initializer, Len(head) + Len(call))]

\* the declarations as the parser and the checker hold them
Parsed(decls) ==
    LET offset(i) == Len(DeclarationsText(SubSeq(decls, 1, i - 1))) + 3
    IN [text |-> DeclarationsText(decls),
        symbols |-> [i \in 1..Len(decls) |->
                        [name |-> decls[i].name,
                         typeString |-> decls[i].typeString,
                         initializer |-> NodeAt(decls[i].initializer, offset(i))]]]

\* sourceCode.substring(node.pos, node.end): an index past the end of the
\* text counts as the end
Substring(sourceCode, node) ==
    LET clamp(index) == IF index > Len(sourceCode) THEN Len(sourceCode) ELSE index
    IN SubSeq(sourceCode, clamp(node.pos) + 1, clamp(node.end))

\* checker.getSymbolAtLocation(identifier): the declaration, if there is one
SymbolAt(program, node) ==
    LET found == {i \in DOMAIN program.symbols :
                     WordTok(program.symbols[i].name) = node.text}
    IN IF found = {} THEN NoNode
       ELSE program.symbols[CHOOSE i \in found : TRUE].initializer

\* checker.typeToString(checker.getTypeAtLocation(identifier))
TypeStringAt(program, node) ==
    LET found == {i \in DOMAIN program.symbols :
                     WordTok(program.symbols[i].name) = node.text}
    IN IF found = {} THEN <<WordTok("any")>>
       ELSE program.symbols[CHOOSE i \in found : TRUE].typeString

\* the type the checker is asked for when the request throws
Thrown == <<PunctTok("throw")>>

\* checker.getTypeAtLocation(identifier) throws
CheckerThrows(program, node) == TypeStringAt(program, node) = Thrown

\* a test that no text passes
LooksLikeNothing(str) == FALSE

\* /^[a-zA-Z_$][a-zA-Z0-9_$]*$/.test(str)
LooksLikeIdentifier(str) == Len(str) = 1 /\ str[1].t = "word"

ArithmeticTokens == {"+", "-", "*", "/", "%"}

\* a fold that divides by zero as if the quotient were 0
ArithmeticUnguarded(operator, left, right) ==
    CASE operator = "+" -> Plus(left, right)
      [] operator = "-" -> Minus(left, right)
      [] operator = "*" -> Times(left, right)
      [] operator = "/" -> IF right.n # 0 THEN Divide(left, right) ELSE Whole(0)
      [] operator = "%" -> IF right.n # 0 THEN Remainder(left, right) ELSE Whole(0)
      [] OTHER -> NaN

\* the arithmetic of the binary branch; NaN stands for result = null
Arithmetic(operator, left, right) ==
    CASE operator = "+" -> Plus(left, right)
      [] operator = "-" -> Minus(left, right)
      [] operator = "*" -> Times(left, right)
      [] operator = "/" -> IF right.n # 0 THEN Divide(left, right) ELSE NaN
      [] operator = "%" -> IF right.n # 0 THEN Remainder(left, right) ELSE NaN
      [] OTHER -> NaN

\* a cap that lets one more level through
DepthBeyondNext(depth) == depth > maxDepth + 1

\* depth > maxDepth
DepthExceeded(depth) == depth > maxDepth

\* what one call returns, and the calls made to compute it, itself first
Outcome(node, depth, text, inner) ==
    [text |-> text,
     calls |-> <<[depth |-> depth, node |-> node, text |-> text,
                  made |-> Len(inner)]>> \o Concat(inner)]

RECURSIVE resolveDefaultValue(_, _, _)
resolveDefaultValue(program, initializer, depth) ==
    LET verbatim == Substring(program.sourceCode, initializer)
        recurse(node) == resolveDefaultValue(program, node, depth + 1)
        done(text) == Outcome(initializer, depth, text, <<>>)
    IN
    IF DepthExceeded(depth) THEN done(verbatim)
    ELSE CASE initializer.kind = "StringLiteral" ->
                done(<<StrTok(initializer.text.v, "\"")>>)
           [] initializer.kind = "NumericLiteral" -> done(<<initializer.text>>)
           [] initializer.kind = "TrueKeyword" -> done(<<WordTok("true")>>)
           [] initializer.kind = "FalseKeyword" -> done(<<WordTok("false")>>)
           [] initializer.kind = "NullKeyword" -> done(<<WordTok("null")>>)
           [] initializer.kind = "ParenthesizedExpression" ->
                LET r == recurse(initializer.kids[1])
                IN Outcome(initializer, depth, r.text, <<r.calls>>)
           [] initializer.kind = "BinaryExpression" ->
                LET l == recurse(initializer.kids[1])
                    r == recurse(initializer.kids[2])
                    folded ==
                        IF isNumericValue(l.text) /\ isNumericValue(r.text)
                        THEN Arithmetic(initializer.operator,
                                        Number(l.text), Number(r.text))
                        ELSE NaN
                IN Outcome(initializer, depth,
                           IF IsFinite(folded) THEN String(folded) ELSE verbatim,
                           <<l.calls, r.calls>>)
           [] initializer.kind = "PrefixUnaryExpression" ->
                IF initializer.operator = "-"
                THEN LET inner == recurse(initializer.kids[1])
                     IN Outcome(initializer, depth,
                                IF isNumericValue(inner.text)
                                THEN String(Negate(Number(inner.text)))
                                ELSE verbatim,
                                <<inner.calls>>)
                ELSE done(verbatim)
           [] initializer.kind = "Identifier" /\ program.checker ->
                LET str == TypeStringAt(program, initializer)
                    declInit == SymbolAt(program, initializer)
                IN IF CheckerThrows(program, initializer)
                   THEN done(verbatim)
                   ELSE IF str # <<WordTok("any")>> /\ ~LooksLikeIdentifier(str)
                   THEN done(str)
                   ELSE IF declInit # NoNode
                   THEN LET r == recurse(declInit)
                        IN Outcome(initializer, depth, r.text, <<r.calls>>)
                   ELSE done(verbatim)
           [] OTHER -> done(verbatim)

ReturnedText(outcome) ==
    [kind |-> "text", id |-> 0, val |-> outcome.text, calls |-> outcome.calls]

\* the scanner resolves the default of one property of the options object
ResolveDefaultCall ==
    /\ pc = "idle"
    /\ ret = NoReturn
    /\ \E f \in DOMAIN fs :
          /\ op' = Op("resolveDefaultValue", fs[f].program.initializer, Dirname(f))
          /\ ret' = ReturnedText(resolveDefaultValue(
                        fs[f].program, fs[f].program.initializer, 0))
    /\ UNCHANGED <<fs, cache, nextId, pc, stack, visited, result, reads, warned>>
    /\ UNCHANGED logVars

\* the declarations of the analysed files: A and B initialised by each
\* other, a folded constant, a constant of literal type, a chain of aliases
ChainNames == <<"K1", "K2", "K3", "K4", "K5", "K6", "K7", "K8", "K9", "K10">>

NumberType == <<WordTok("number")>>
AnyType == <<WordTok("any")>>

Declarations ==
    <<VariableDeclaration("A", AnyType, Identifier("B")),
      VariableDeclaration("B", AnyType, Identifier("A")),
      VariableDeclaration("FOO", NumberType,
          BinaryExpression(NumericLiteral(60), "*", NumericLiteral(2))),
      VariableDeclaration("FIVE", <<NumTok(Whole(5))>>, NumericLiteral(5))>>
    \o [i \in 1..(MaxNest + 1) |->
           VariableDeclaration(ChainNames[i], NumberType,
               Identifier(ChainNames[i + 1]))]
    \o <<VariableDeclaration(ChainNames[MaxNest + 2], NumberType,
             NumericLiteral(7))>>

ParsedDeclarations == Parsed(Declarations)

Operands ==
    {NumericLiteral(0), NumericLiteral(2), NumericLiteral(60),
     StringLiteral("a", "'"), Keyword("true"), Identifier("FOO"),
     Identifier("FIVE"), Identifier("U"),
     PrefixUnaryExpression("-", NumericLiteral(5)),
     ParenthesizedExpression(NumericLiteral(3))}

LaterOperands == {NumericLiteral(0), NumericLiteral(100)}
LaterOperators == {"*", "/"}

Operators == ArithmeticTokens \cup {"**"}

\* first op1 x1 op2 x2 ..., grouped to the left as the parser groups it
RECURSIVE LeftChain(_, _)
LeftChain(first, steps) ==
    IF steps = <<>> THEN first
    ELSE LeftChain(BinaryExpression(first, Head(steps)[1], Head(steps)[2]),
                   Tail(steps))

BinaryFamily(maxOperands) ==
    {LeftChain(first, <<step1>> \o steps) :
        first \in Operands,
        step1 \in Operators \X Operands,
        steps \in SeqsUpTo(LaterOperators \X LaterOperands, maxOperands - 2)}

Wrappers == {"paren", "minus", "plus", "sum"}

Wrap(wrapper, e) ==
    CASE wrapper = "paren" -> ParenthesizedExpression(e)
      [] wrapper = "minus" -> PrefixUnaryExpression("-", e)
      [] wrapper = "plus" -> PrefixUnaryExpression("+", e)
      [] OTHER -> BinaryExpression(NumericLiteral(1), "+", e)

RECURSIVE Nest(_, _)
Nest(wrappers, core) ==
    IF wrappers = <<>> THEN core
    ELSE Wrap(Head(wrappers), Nest(Tail(wrappers), core))

Cores ==
    {NumericLiteral(5), StringLiteral("a", "'"), Identifier("A"),
     Identifier(ChainNames[1])}

\* up to two wrappers of any kind around up to maxNest - 2 of one kind
NestedFamily(maxNest) ==
    {Nest(outer \o [i \in 1..k |-> inner], core) :
        outer \in SeqsUpTo(Wrappers, 2), inner \in Wrappers,
        k \in 0..(maxNest - 2), core \in Cores}

ProgramFile(program) ==
    [readable |-> TRUE, scanThrows |-> FALSE, ast |-> SourceFile(<<>>),
     program |-> program]

DefaultFamily(decls) ==
    {(InCwd(<<aTs>>) :> ProgramFile(Program(decls, e, TRUE))) :
        e \in BinaryFamily(MaxOperands) \cup NestedFamily(MaxNest)}
    \cup {(InCwd(<<aTs>>) :> ProgramFile(Program(decls, e, FALSE))) :
             e \in Operands \cup Cores}

\* declarations of another file of the program, imported by the analysed
\* file: an initializer that does not reduce, one that does, one whose
\* identifier the checker throws on, two that refer to each other
ImportedDeclarations ==
    <<VariableDeclaration("REMOTE", NumberType,
          BinaryExpression(Identifier("X"), "*", NumericLiteral(2))),
      VariableDeclaration("RNUM", NumberType, NumericLiteral(7)),
      VariableDeclaration("T", Thrown, NumericLiteral(9)),
      VariableDeclaration("RA", AnyType, Identifier("RB")),
      VariableDeclaration("RB", AnyType, Identifier("RA"))>>

\* the symbols of both files; the text is that of the analysed file
WithImported(parsed, imported) ==
    [text |-> parsed.text, symbols |-> parsed.symbols \o imported.symbols]

ProgramDeclarations == WithImported(ParsedDeclarations, Parsed(ImportedDeclarations))

ImportCores ==
    {Identifier("REMOTE"), Identifier("RNUM"), Identifier("T"), Identifier("RA"),
     Identifier("FOO"), Identifier("FIVE"), Identifier("U"), Identifier("A")}

\* an identifier in up to two wrappers of any kind around up to
\* maxNest - 2 of one kind
ImportFamily(maxNest) ==
    {Nest(outer \o [i \in 1..k |-> inner], core) :
        outer \in SeqsUpTo(Wrappers, 2), inner \in Wrappers,
        k \in 0..(maxNest - 2), core \in ImportCores}

\* resolveDefaultValue alone, over initializers that name declarations of
\* the analysed file and of another
InitImport ==
    /\ fs \in {(InCwd(<<aTs>>) :> ProgramFile(Program(ProgramDeclarations, e, checker))) :
                  e \in ImportFamily(MaxNest), checker \in BOOLEAN}
    /\ InitProcess

NextImport == ResolveDefaultCall

SpecImport == InitImport /\ [][NextImport]_vars

\* resolveDefaultValue alone, over generated initializers
InitDefault == fs \in DefaultFamily(ParsedDeclarations) /\ InitProcess

NextDefault == ResolveDefaultCall

SpecDefault == InitDefault /\ [][NextDefault]_vars

-----------------------------------------------------------------------------
(* The claims about the default-value evaluator. ret.calls lists the calls *)
(* of one evaluation in the order they were made, each with its depth, its *)
(* node, the text it returned and the number of calls it made itself.      *)

DefaultReturned == ret.kind = "text"

\* the text is a numeral, signed or not
IsNumeral(text) ==
    \/ Len(text) = 1 /\ text[1].t = "num"
    \/ Len(text) = 2 /\ text[1].t = "punct" /\ text[1].v \in {"+", "-"}
       /\ text[2].t = "num"

NumeralValue(text) ==
    IF Len(text) = 1 THEN text[1].n
    ELSE IF text[1].v = "-" THEN Negate(text[2].n) ELSE text[2].n

NumeralOf(v) ==
    IF v.n < 0 THEN <<PunctTok("-"), NumTok([n |-> -v.n, d |-> v.d])>>
    ELSE <<NumTok(v)>>

\* the calls a call made itself: the next call, then each later call of the
\* same depth up to the end of its own
OperandCalls(i) ==
    LET d == ret.calls[i].depth
        later == {j \in (i + 1)..Len(ret.calls) : ret.calls[j].depth <= d}
        last == IF later = {} THEN Len(ret.calls) ELSE Min(later) - 1
    IN {j \in (i + 1)..last : ret.calls[j].depth = d + 1}

C14_CappedKeepsOwnText ==
    (DefaultReturned /\ \E i \in DOMAIN ret.calls : ret.calls[i].depth > maxDepth)
    => ret.val = SourceText(op.arg)

-----------------------------------------------------------------------------
(* The type expander: getGenericTypeDisplay, getAcceptableValues and       *)
(* expandTypeToParamRows over the types of a checker. A type is known by   *)
(* its id; a display string 'a | b' is the sequence of its parts, '' the   *)
(* empty sequence.                                                         *)

MaxBranches == 3
MaxProps == 3

StringFlag == 4
NumberFlag == 8
BooleanFlag == 16

\* f & bit, for a bit that is a power of two
HasFlag(f, bit) == (f \div bit) % 2 = 1

NoValue == [kind |-> "none", s |-> "", n |-> 0]
StringValue(s) == [kind |-> "string", s |-> s, n |-> 0]
NumberValue(n) == [kind |-> "number", s |-> "", n |-> n]

\* a type object of the checker: types are the members of a union, declared
\* is what getDeclaredTypeOfSymbol gives for its symbol (0: no symbol)
Type(flags, types, value, declared, str) ==
    [flags |-> flags, types |-> types, value |-> value, declared |-> declared,
     str |-> str]

NoType == "none"

\* the order of Array.prototype.sort() on the strings that occur
CodeUnitOrder ==
    <<"10", "9", "any", "boolean", "number", "password", "string", "x", "y", "z">>

Sort(strings) ==
    LET kept(x) == x \in strings IN SelectSeq(CodeUnitOrder, kept)

\* a Set in insertion order, one more element added
SetAdd(elements, x) ==
    IF x \in Range(elements) THEN elements ELSE Append(elements, x)

RECURSIVE SetAddAll(_, _)
SetAddAll(elements, xs) ==
    IF xs = <<>> THEN elements
    ELSE SetAddAll(SetAdd(elements, Head(xs)), Tail(xs))

\* String(v) of a literal's value
ValueString(value) ==
    IF value.kind = "string" THEN value.s ELSE ToString(value.n)

AnyDisplay == <<"any">>
EmptyDisplay == <<>>

\* the primitives of a union, in the order they were found
DisplayUnsorted(primitives) == IF primitives = <<>> THEN AnyDisplay ELSE primitives

\* const arr = [...primitives].sort(); arr.length ? arr.join(' | ') : 'any'
DisplayOfPrimitives(primitives) ==
    IF primitives = <<>> THEN AnyDisplay ELSE Sort(Range(primitives))

\* a visited set that forgets what the calls below added to it
SeenCopied(before, after) == before

\* the Set is shared: what a call adds to it, its caller sees
SeenShared(before, after) == after

\* what one call returns, the visited set it leaves, and the calls made
Visit(id, guarded, out, seen, inner) ==
    [out |-> out, seen |-> seen,
     calls |-> <<[id |-> id, guarded |-> guarded, out |-> out,
                  made |-> Len(inner)]>> \o Concat(inner)]

RECURSIVE getGenericTypeDisplay(_, _, _)
RECURSIVE DisplayMembers(_, _, _, _, _)

\* for (const t of type.types): the primitives and the calls so far
DisplayMembers(checker, members, seen, primitives, inner) ==
    IF members = <<>>
    THEN [primitives |-> primitives, seen |-> seen, inner |-> inner]
    ELSE LET r == getGenericTypeDisplay(checker, Head(members), seen)
         IN DisplayMembers(checker, Tail(members),
                SeenShared(seen, r.seen),
                IF r.out # EmptyDisplay /\ r.out # AnyDisplay
                THEN SetAddAll(primitives, r.out) ELSE primitives,
                Append(inner, r.calls))

getGenericTypeDisplay(checker, id, seenBefore) ==
    IF id = NoType THEN Visit(id, FALSE, AnyDisplay, seenBefore, <<>>)
    ELSE IF id \in seenBefore THEN Visit(id, TRUE, EmptyDisplay, seenBefore, <<>>)
    ELSE
    LET type == checker[id]
        seen == seenBefore \cup {id}
        f == type.flags
        byName ==
            IF type.str \in {"boolean", "string", "number"} THEN <<type.str>>
            ELSE IF type.str \in {"true", "false"} THEN <<"boolean">>
            ELSE EmptyDisplay
    IN IF type.types # <<>>
       THEN LET m == DisplayMembers(checker, type.types, seen, <<>>, <<>>)
            IN Visit(id, FALSE, DisplayOfPrimitives(m.primitives), m.seen, m.inner)
       ELSE IF type.value.kind = "string"
       THEN Visit(id, FALSE, <<"string">>, seen, <<>>)
       ELSE IF type.value.kind = "number"
       THEN Visit(id, FALSE, <<"number">>, seen, <<>>)
       ELSE IF HasFlag(f, StringFlag) THEN Visit(id, FALSE, <<"string">>, seen, <<>>)
       ELSE IF HasFlag(f, NumberFlag) THEN Visit(id, FALSE, <<"number">>, seen, <<>>)
       ELSE IF HasFlag(f, BooleanFlag) THEN Visit(id, FALSE, <<"boolean">>, seen, <<>>)
       ELSE IF type.declared # NoType /\ type.declared # id
       THEN LET r == getGenericTypeDisplay(checker, type.declared, seen)
            IN Visit(id, FALSE,
                     IF r.out # EmptyDisplay /\ r.out # AnyDisplay THEN r.out ELSE byName,
                     SeenShared(seen, r.seen), <<r.calls>>)
       ELSE Visit(id, FALSE, byName, seen, <<>>)

RECURSIVE getAcceptableValues(_, _, _)
RECURSIVE ValuesOfMembers(_, _, _, _, _)

\* for (const t of type.types) values.push(...getAcceptableValues(...))
ValuesOfMembers(checker, members, seen, values, inner) ==
    IF members = <<>> THEN [values |-> values, seen |-> seen, inner |-> inner]
    ELSE LET r == getAcceptableValues(checker, Head(members), seen)
         IN ValuesOfMembers(checker, Tail(members), SeenShared(seen, r.seen),
                            values \o r.out, Append(inner, r.calls))

getAcceptableValues(checker, id, seenBefore) ==
    IF id = NoType THEN Visit(id, FALSE, EmptyDisplay, seenBefore, <<>>)
    ELSE IF id \in seenBefore THEN Visit(id, TRUE, EmptyDisplay, seenBefore, <<>>)
    ELSE
    LET type == checker[id]
        seen == seenBefore \cup {id}
        own == IF type.value.kind \in {"string", "number"}
               THEN <<ValueString(type.value)>> ELSE <<>>
    IN IF type.types # <<>>
       THEN LET m == ValuesOfMembers(checker, type.types, seen, <<>>, <<>>)
            IN Visit(id, FALSE, Sort(Range(m.values)), m.seen, m.inner)
       ELSE IF type.declared # NoType /\ type.declared # id
       THEN LET r == getAcceptableValues(checker, type.declared, seen)
            IN Visit(id, FALSE, Sort(Range(own \o r.out)),
                     SeenShared(seen, r.seen), <<r.calls>>)
       ELSE Visit(id, FALSE, Sort(Range(own)), seen, <<>>)

\* a token of the text of a comment
Text(v) == [t |-> "text", v |-> v]
Tag(v) == [t |-> "tag", v |-> v]

\* a comment before a declaration: a documentation block or not
Comment(doc, inner) == [doc |-> doc, inner |-> inner]

\* getJSDocFromLeadingTrivia: the text inside the last documentation block
JSDocFromLeadingTrivia(leading) ==
    LET docs == {i \in DOMAIN leading : leading[i].doc}
    IN IF docs = {} THEN <<>>
       ELSE leading[CHOOSE i \in docs : \A j \in docs : j <= i].inner

\* /@password\b/.test(inner)
HasPasswordTag(inner) == \E i \in DOMAIN inner : inner[i] = Tag("@password")

parseJSDocInner(inner) ==
    LET tags == {i \in DOMAIN inner : inner[i].t = "tag"}
        first == IF tags = {} THEN Len(inner) + 1 ELSE Min(tags)
        after(tag) ==
            LET at == {i \in tags : inner[i].v = tag /\ i < Len(inner)
                                    /\ inner[i + 1].t = "text"}
            IN IF at = {} THEN "" ELSE inner[Min(at) + 1].v
    IN [description |-> [i \in 1..(first - 1) |-> inner[i].v],
        example |-> IF after("@example") # "" THEN after("@example")
                    ELSE after("@default"),
        password |-> HasPasswordTag(inner)]

getJSDocParamInfo(decl) ==
    LET inner == JSDocFromLeadingTrivia(decl.leading)
    IN IF inner = <<>>
       THEN [description |-> <<>>, example |-> "", password |-> FALSE]
       ELSE parseJSDocInner(inner)

\* a property symbol: its name, its declaration, the type of the symbol
Property(name, optional, leading, type) ==
    [name |-> name, decl |-> [questionToken |-> optional, leading |-> leading],
     type |-> type]

Undefined == <<"undefined">>

\* a reclassification that needs the tag only
PasswordIfTagged(typeStr, jsdoc) ==
    IF jsdoc.password THEN <<"password">> ELSE typeStr

\* if (jsdoc.password && typeStr === 'string') typeStr = 'password'
Reclassify(typeStr, jsdoc) ==
    IF jsdoc.password /\ typeStr = <<"string">> THEN <<"password">> ELSE typeStr

OrAny(display) == IF display = EmptyDisplay THEN AnyDisplay ELSE display

\* the row of one property symbol
RowOf(checker, sym) ==
    LET jsdoc == getJSDocParamInfo(sym.decl)
        acceptsValues == getAcceptableValues(checker, sym.type, {}).out
    IN [name |-> sym.name,
        typeStr |-> Reclassify(
            OrAny(getGenericTypeDisplay(checker, sym.type, {}).out), jsdoc),
        optional |-> sym.decl.questionToken,
        description |-> jsdoc.description,
        example |-> IF jsdoc.example # "" THEN <<jsdoc.example>> ELSE Undefined,
        acceptsValues |-> IF acceptsValues # <<>> THEN acceptsValues ELSE Undefined]

\* rows.push for '[key: string]' and '[key: number]'
IndexRow(checker, name, type) ==
    [name |-> name,
     typeStr |-> OrAny(getGenericTypeDisplay(checker, type, {}).out),
     optional |-> FALSE, description |-> <<>>, example |-> Undefined,
     acceptsValues |-> Undefined]

\* an addProp that pushes every row
AddPropAlways(rows, row) == Append(rows, row)

\* addProp: a name seen before is skipped
AddProp(rows, row) ==
    IF \E i \in DOMAIN rows : rows[i].name = row.name THEN rows
    ELSE Append(rows, row)

RECURSIVE AddProps(_, _, _)
AddProps(checker, props, rows) ==
    IF props = <<>> THEN rows
    ELSE AddProps(checker, Tail(props), AddProp(rows, RowOf(checker, Head(props))))

\* the rows, or null
Rows(rows) == [null |-> FALSE, rows |-> rows]
Null == [null |-> TRUE, rows |-> <<>>]

\* declaration: the types of the checker, the properties of the type of the
\* type argument, its index types
expandTypeToParamRows(declaration) ==
    LET checker == declaration.checker
        props == AddProps(checker, declaration.props, <<>>)
        withString ==
            IF declaration.stringIndex # NoType
            THEN Append(props, IndexRow(checker, "[key: string]",
                                        declaration.stringIndex))
            ELSE props
        rows ==
            IF declaration.numberIndex # NoType
            THEN Append(withString, IndexRow(checker, "[key: number]",
                                             declaration.numberIndex))
            ELSE withString
    IN IF rows # <<>> THEN Rows(rows) ELSE Null

\* the calls the expander made for each property: display, then values
TracesOf(declaration) ==
    [i \in DOMAIN declaration.props |->
        [display |-> getGenericTypeDisplay(declaration.checker,
                         declaration.props[i].type, {}).calls,
         values |-> getAcceptableValues(declaration.checker,
                        declaration.props[i].type, {}).calls]]

ReturnedRows(declaration) ==
    LET returned == expandTypeToParamRows(declaration)
    IN [kind |-> "rows", id |-> 0, val |-> returned.rows, null |-> returned.null,
        traces |-> TracesOf(declaration)]

\* the scanner expands the type argument of one parseParams call
ExpandCall ==
    /\ pc = "idle"
    /\ ret = NoReturn
    /\ \E f \in DOMAIN fs :
          /\ op' = Op("expandTypeToParamRows", fs[f].declaration, Dirname(f))
          /\ ret' = ReturnedRows(fs[f].declaration)
    /\ UNCHANGED <<fs, cache, nextId, pc, stack, visited, result, reads, warned>>
    /\ UNCHANGED logVars

\* the types of the checker: primitives, literals, an interface, two
\* aliases that declare each other, a union that holds itself, a union
\* that reaches one type twice
BaseTypes ==
    ("string" :> Type(4, <<>>, NoValue, NoType, "string"))
    @@ ("number" :> Type(8, <<>>, NoValue, NoType, "number"))
    @@ ("boolean" :> Type(1048592, <<"false", "true">>, NoValue, NoType, "boolean"))
    @@ ("false" :> Type(512, <<>>, NoValue, NoType, "false"))
    @@ ("true" :> Type(512, <<>>, NoValue, NoType, "true"))
    @@ ("undefined" :> Type(32768, <<>>, NoValue, NoType, "undefined"))
    @@ ("'x'" :> Type(128, <<>>, StringValue("x"), NoType, "\"x\""))
    @@ ("'y'" :> Type(128, <<>>, StringValue("y"), NoType, "\"y\""))
    @@ ("'z'" :> Type(128, <<>>, StringValue("z"), NoType, "\"z\""))
    @@ ("10" :> Type(256, <<>>, NumberValue(10), NoType, "10"))
    @@ ("9" :> Type(256, <<>>, NumberValue(9), NoType, "9"))
    @@ ("Date" :> Type(524288, <<>>, NoValue, "Date", "date"))
    @@ ("Node" :> Type(524288, <<>>, NoValue, "Link", "node"))
    @@ ("Link" :> Type(524288, <<>>, NoValue, "Node", "link"))
    @@ ("Loop" :> Type(1048576, <<"'x'", "Loop">>, NoValue, NoType, "loop"))
    @@ ("Twice" :> Type(1048576, <<"Node", "Link", "string">>, NoValue, NoType,
                        "twice"))

Branches ==
    {"string", "number", "false", "true", "undefined", "'x'", "'y'", "'z'",
     "10", "9", "Date"}

\* the unions of two to MaxBranches different types
Unions(maxBranches) ==
    UNION {{q \in [1..k -> Branches] : \A i, j \in 1..k : i # j => q[i] # q[j]} :
              k \in 2..maxBranches}

CheckerWith(members) ==
    BaseTypes @@ ("union" :> Type(1048576, members, NoValue, NoType, "union"))

Leading(doc) ==
    CASE doc = "none" -> <<>>
      [] doc = "plain" -> <<Comment(TRUE, <<Text("The mode")>>)>>
      [] doc = "tagged" ->
            <<Comment(TRUE, <<Text("The secret"), Tag("@password")>>)>>
      [] doc = "example" ->
            <<Comment(TRUE, <<Text("The mode"), Tag("@passwordless"),
                              Tag("@example"), Text("fast")>>)>>
      [] OTHER -> <<Comment(TRUE, <<Text("The mode")>>),
                    Comment(FALSE, <<Tag("@password")>>)>>

Declaration(checker, props, stringIndex, numberIndex) ==
    [checker |-> checker, props |-> props, stringIndex |-> stringIndex,
     numberIndex |-> numberIndex]

PropertyTemplates ==
    {Property(name, FALSE, <<>>, type) :
        name \in {"id", "mode", "[key: string]"}, type \in {"string", "number"}}

ExpandFamily(maxProps) ==
    {Declaration(CheckerWith(members),
                 <<Property("mode", optional, Leading(doc), "union")>>,
                 NoType, NoType) :
        members \in Unions(MaxBranches), doc \in {"none", "tagged"}, optional \in {FALSE}}
    \cup {Declaration(BaseTypes, <<Property("mode", optional, Leading(doc), type)>>,
                      NoType, NoType) :
             type \in DOMAIN BaseTypes \cup {NoType},
             doc \in {"none", "plain", "tagged", "example", "line"},
             optional \in BOOLEAN}
    \cup {Declaration(BaseTypes, props, stringIndex, numberIndex) :
             props \in SeqsUpTo(PropertyTemplates, maxProps),
             stringIndex \in {NoType, "string"},
             numberIndex \in {NoType, "number"}}

DeclarationFile(declaration) ==
    [readable |-> TRUE, scanThrows |-> FALSE, ast |-> SourceFile(<<>>),
     declaration |-> declaration]

\* expandTypeToParamRows alone, over generated declarations
InitExpand ==
    /\ fs \in {(InCwd(<<aTs>>) :> DeclarationFile(d)) : d \in ExpandFamily(MaxProps)}
    /\ InitProcess

NextExpand == ExpandCall

SpecExpand == InitExpand /\ [][NextExpand]_vars

-----------------------------------------------------------------------------
(* The claims about the type expander. ret.val holds the rows, ret.traces  *)
(* the calls made for each property of the declaration, the outermost call *)
(* first.                                                                  *)

ExpandReturned == ret.kind = "rows"

\* the properties of the expanded declaration
Props == op.arg.props

\* the property is the first of its name
FirstOfName(i) == \A j \in 1..(i - 1) : Props[j].name # Props[i].name

\* the place of the row of property i: the names met up to it
PlaceOf(i) == Cardinality({Props[j].name : j \in 1..i})

\* the documentation comment of the property carries the sensitivity tag
Tagged(i) ==
    LET leading == Props[i].decl.leading
        isDoc(c) == c.doc
        docs == SelectSeq(leading, isDoc)
    IN docs # <<>> /\ Tag("@password") \in Range(docs[Len(docs)].inner)

\* the classification of property i before reclassification
Before(i) ==
    LET out == ret.traces[i].display[1].out
    IN IF out = <<>> THEN <<"any">> ELSE out

(* C15: the row of a property is classified password exactly when its      *)
(* documentation comment carries the sensitivity tag and its               *)
(* classification before was string; any other row keeps the               *)
(* classification it had, and an index-signature row is never password.    *)
C15_PasswordOnlyReplacesString ==
    (ExpandReturned /\ ~ret.null) =>
        /\ \A i \in DOMAIN Props :
              FirstOfName(i) =>
                  /\ PlaceOf(i) \in DOMAIN ret.val
                  /\ ret.val[PlaceOf(i)].name = Props[i].name
                  /\ ret.val[PlaceOf(i)].typeStr =
                        IF Tagged(i) /\ Before(i) = <<"string">>
                        THEN <<"password">> ELSE Before(i)
        /\ \A k \in DOMAIN ret.val :
              k > PlaceOf(Len(Props)) => ret.val[k].typeStr # <<"password">>

\* a tagged string property became password, another row of the same run
\* family kept number although tagged
C15_Witness ==
    /\ ExpandReturned
    /\ Len(Props) = 1
    /\ Tagged(1)
    /\ Before(1) = <<"string">>
    /\ ret.val[1].typeStr = <<"password">>

\* a tagged number property stayed number
C15_WitnessTaggedNumber ==
    /\ ExpandReturned
    /\ Len(Props) = 1
    /\ Tagged(1)
    /\ ret.val[1].typeStr = <<"number">>

\* the primitive a branch of a union reduces to, "none" when it reduces to
\* none: literals by their kind, an interface or an object alias to none
BranchClass(id) ==
    CASE id \in {"string", "'x'", "'y'", "'z'", "Loop"} -> "string"
      [] id \in {"number", "10", "9"} -> "number"
      [] id \in {"boolean", "true", "false"} -> "boolean"
      [] OTHER -> "none"

ClassOrder == <<"boolean", "number", "string">>

\* the classes in ascending order, each once
SortedClasses(classes) ==
    LET kept(c) == c \in classes IN SelectSeq(ClassOrder, kept)

\* the branches of the type of property i, none when it is no union
BranchesOf(i) ==
    IF Props[i].type = NoType THEN <<>>
    ELSE op.arg.checker[Props[i].type].types

Reduced(i) == {BranchClass(b) : b \in Range(BranchesOf(i))} \ {"none"}

\* the statement that one branch without a primitive makes the union unknown
C16_UnknownIfAnyBranchIrreducible ==
    ExpandReturned =>
        \A i \in DOMAIN Props :
            BranchesOf(i) # <<>> =>
                Before(i) =
                    IF \A b \in Range(BranchesOf(i)) : BranchClass(b) # "none"
                    THEN SortedClasses(Reduced(i)) ELSE <<"any">>

(* C16: the classification of a union-typed property is the sorted,        *)
(* deduplicated union of the classifications of the branches that reduce   *)
(* to string, number or boolean; a branch that does not reduce is ignored, *)
(* and the union is unknown only when no branch reduces.                   *)
C16_UnionOfReducibleBranches ==
    ExpandReturned =>
        \A i \in DOMAIN Props :
            BranchesOf(i) # <<>> =>
                Before(i) =
                    IF Reduced(i) # {} THEN SortedClasses(Reduced(i))
                    ELSE <<"any">>

\* string | undefined | number was classified number | string
C16_Witness ==
    /\ ExpandReturned
    /\ Len(Props) = 1
    /\ BranchesOf(1) = <<"string", "undefined", "number">>
    /\ ret.val[1].typeStr = <<"number", "string">>

\* the literal types and their values as text, in ascending order of text
Literals == <<"10", "9", "'x'", "'y'", "'z'">>
LiteralText(id) ==
    CASE id = "'x'" -> "x" [] id = "'y'" -> "y" [] id = "'z'" -> "z"
      [] OTHER -> id

\* the texts of the literals among the branches, ascending, each once
SortedLiterals(branches) ==
    LET kept(id) == id \in Range(branches)
        ids == SelectSeq(Literals, kept)
    IN [k \in DOMAIN ids |-> LiteralText(ids[k])]

\* the type of property i is a union of string and number literals, an
\* optional property's undefined apart
UnionOfLiterals(i) ==
    /\ BranchesOf(i) # <<>>
    /\ \A b \in Range(BranchesOf(i)) : b \in Range(Literals) \cup {"undefined"}
    /\ \E b \in Range(BranchesOf(i)) : b \in Range(Literals)

\* the type of property i is a literal by itself
LiteralAlone(i) == Props[i].type \in Range(Literals)

(* C17: the accepted values of a row are the sorted, duplicate-free texts  *)
(* of the literals when the property's type is a union of literals, and    *)
(* absent when it is not (a type that is one literal by itself is left     *)
(* open).                                                                  *)
C17_ValuesOnlyForLiteralUnions ==
    (ExpandReturned /\ ~ret.null) =>
        \A i \in DOMAIN Props :
            (FirstOfName(i) /\ ~LiteralAlone(i)) =>
                ret.val[PlaceOf(i)].acceptsValues =
                    IF UnionOfLiterals(i) THEN SortedLiterals(BranchesOf(i))
                    ELSE Undefined

\* 'z' | 'x' | 'y' gave x, y, z and the classification string
C17_LiteralUnionListed ==
    /\ ExpandReturned
    /\ Len(Props) = 1
    /\ BranchesOf(1) = <<"'z'", "'x'", "'y'">>
    /\ ret.val[1].acceptsValues = <<"x", "y", "z">>
    /\ ret.val[1].typeStr = <<"string">>

\* 'x' | number gave the accepted values x
C17_MixedUnionListed ==
    /\ ExpandReturned
    /\ Len(Props) = 1
    /\ BranchesOf(1) = <<"'x'", "number">>
    /\ ret.val[1].acceptsValues = <<"x">>

\* the half of C17 that holds: a union of literals lists its literals, and
\* a type without a literal among its branches lists none
C17_LiteralUnionsListTheirLiterals ==
    (ExpandReturned /\ ~ret.null) =>
        \A i \in DOMAIN Props :
            (FirstOfName(i) /\ BranchesOf(i) # <<>>) =>
                /\ UnionOfLiterals(i) =>
                      ret.val[PlaceOf(i)].acceptsValues =
                          SortedLiterals(BranchesOf(i))
                /\ (\A b \in Range(BranchesOf(i)) : b \notin Range(Literals)
                                                    /\ b # "Loop") =>
                      ret.val[PlaceOf(i)].acceptsValues = Undefined

\* the names of the rows, in order
RowNames == [k \in DOMAIN ret.val |-> ret.val[k].name]

\* the names of the properties in declaration order, each at its first
\* occurrence, then the index signatures the declaration has
RECURSIVE FirstOccurrences(_)
FirstOccurrences(names) ==
    IF names = <<>> THEN <<>>
    ELSE LET before == FirstOccurrences(SubSeq(names, 1, Len(names) - 1))
             name == names[Len(names)]
         IN IF name \in Range(before) THEN before ELSE Append(before, name)

DeclaredNames ==
    FirstOccurrences([i \in DOMAIN Props |-> Props[i].name])
    \o (IF op.arg.stringIndex # NoType THEN <<"[key: string]">> ELSE <<>>)
    \o (IF op.arg.numberIndex # NoType THEN <<"[key: number]">> ELSE <<>>)

\* rows in declaration order, and the row of a repeated name is that of
\* its first declaration
FirstDeclarationKept ==
    /\ RowNames = DeclaredNames
    /\ \A i \in DOMAIN Props :
          FirstOfName(i) =>
              /\ ret.val[PlaceOf(i)].name = Props[i].name
              /\ ret.val[PlaceOf(i)].typeStr \in {Before(i), <<"password">>}
              /\ ret.val[PlaceOf(i)].optional = Props[i].decl.questionToken

(* C18: no two rows of a returned list have the same name, the index       *)
(* signature rows included; rows are in declaration order, and of a name   *)
(* produced more than once the first row is the one kept.                  *)
C18_UniqueNamesFirstKept ==
    (ExpandReturned /\ ~ret.null) =>
        /\ \A j, k \in DOMAIN ret.val :
              j # k => ret.val[j].name # ret.val[k].name
        /\ FirstDeclarationKept

\* the half of C18 that holds: order, and the first declaration is kept
C18_OrderAndFirstKept == (ExpandReturned /\ ~ret.null) => FirstDeclarationKept

\* a property named '[key: string]' and a string index signature gave two
\* rows of that name
C18_TwoRowsOfOneName ==
    /\ ExpandReturned
    /\ Len(Props) = 1
    /\ Props[1].name = "[key: string]"
    /\ op.arg.stringIndex # NoType
    /\ RowNames = <<"[key: string]", "[key: string]">>

\* id declared as string, then again as number: one row, of type string
C18_RepeatedNameKeptFirst ==
    /\ ExpandReturned
    /\ Len(Props) = 2
    /\ Props[1].name = "id" /\ Props[2].name = "id"
    /\ Props[1].type = "string" /\ Props[2].type = "number"
    /\ op.arg.stringIndex = NoType /\ op.arg.numberIndex = NoType
    /\ Len(ret.val) = 1
    /\ ret.val[1].typeStr = <<"string">>

\* one run of a guarded function, by its calls in the order they were made:
\* the outermost call is expanded; no type is expanded twice; a call on a
\* type expanded before is the only kind that is turned away, returns the
\* empty result and makes no call
GuardedRun(calls) ==
    /\ ~calls[1].guarded
    /\ \A j, k \in DOMAIN calls :
          (j < k /\ ~calls[j].guarded /\ ~calls[k].guarded
           /\ calls[j].id # NoType) => calls[j].id # calls[k].id
    /\ \A k \in DOMAIN calls :
          calls[k].guarded <=>
              \E j \in 1..(k - 1) : ~calls[j].guarded /\ calls[j].id = calls[k].id
    /\ \A k \in DOMAIN calls :
          calls[k].guarded => calls[k].out = <<>> /\ calls[k].made = 0
    /\ Cardinality({k \in DOMAIN calls : ~calls[k].guarded /\ calls[k].id # NoType})
          <= Cardinality(DOMAIN op.arg.checker)

(* C19: classification and the collection of accepted values end on every  *)
(* type graph, cyclic ones included: within one run no type is expanded    *)
(* twice, so a run expands at most as many types as the checker holds, and *)
(* a call on a type already in the visited set returns the empty result    *)
(* without a further call.                                                 *)
C19_VisitedSetBoundsExpansion ==
    ExpandReturned =>
        \A i \in DOMAIN ret.traces :
            GuardedRun(ret.traces[i].display) /\ GuardedRun(ret.traces[i].values)

\* Node and Link declare each other: Node, Link, then Node turned away, in
\* both runs
C19_Witness ==
    /\ ExpandReturned
    /\ Len(Props) = 1
    /\ Props[1].type = "Node"
    /\ [k \in 1..3 |-> ret.traces[1].display[k].id] = <<"Node", "Link", "Node">>
    /\ ret.traces[1].display[3].guarded
    /\ Len(ret.traces[1].display) = 3
    /\ Len(ret.traces[1].values) = 3
    /\ ret.traces[1].values[3].guarded

-----------------------------------------------------------------------------
(* The scanner's fallback to a documentation comment: the @type comments   *)
(* found by jsDocRegex in the text of the file, and the choice of one of   *)
(* them for a parseParams call without type arguments. The text is a       *)
(* sequence of tokens; a type shape 'a; b' is the sequence of its parts.   *)

MaxBlocks == 4

JsDocWindow == 5

Token(t, type) == [t |-> t, type |-> type]
OpenTok == Token("/**", <<>>)
CloseTok == Token("*/", <<>>)
StarTok == Token("*", <<>>)
NewlineTok == Token("\n", <<>>)
WordsTok == Token("words", <<>>)
CodeTok == Token("code", <<>>)
CallTok == Token("parseParams()", <<>>)
\* @type {a; b}
TypeTagTok(type) == Token("@type", type)

\* sourceCode.substring(0, index).split('\n').length
LineOfIndex(sourceCode, index) ==
    1 + Cardinality({i \in 1..(index - 1) : sourceCode[i] = NewlineTok})

\* the places where \*\s*@type\s*\{([^}]+)\} matches after a match that
\* began at start: a tag after a star, the second star of a later opener
\* included
TagAfterStar(sourceCode, start) ==
    {j \in (start + 2)..Len(sourceCode) :
        /\ sourceCode[j].t = "@type"
        /\ \/ sourceCode[j - 1] = StarTok
           \/ sourceCode[j - 1] = OpenTok /\ j - 1 > start}

\* while ((jsDocMatch = jsDocRegex.exec(sourceCode)) !== null): the matches
\* from lastIndex on, each with its type and the line where it begins
RECURSIVE JsDocMatches(_, _)
JsDocMatches(sourceCode, lastIndex) ==
    LET opens == {i \in lastIndex..Len(sourceCode) : sourceCode[i] = OpenTok}
        start == Min(opens)
        tags == TagAfterStar(sourceCode, start)
        tag == Min(tags)
        closes == {k \in (tag + 1)..Len(sourceCode) : sourceCode[k] = CloseTok}
    IN IF opens = {} THEN <<>>
       ELSE IF tags = {} THEN <<>>
       ELSE IF closes = {} THEN <<>>
       ELSE <<[type |-> sourceCode[tag].type,
               line |-> LineOfIndex(sourceCode, start)]>>
            \o JsDocMatches(sourceCode, Min(closes) + 1)

\* node.pos of the call at index: the end of the token before its leading
\* trivia, the start of the file when there is none
FullStart(sourceCode, index) ==
    LET tokens == {i \in 1..(index - 1) : sourceCode[i].t \in {"code", "parseParams()"}}
    IN IF tokens = {} THEN 1
       ELSE (CHOOSE i \in tokens : \A j \in tokens : j <= i) + 1

\* for (const jsDoc of jsDocMatches): the closest so far, NoJsDoc for none
NoJsDoc == [type |-> <<>>, line |-> 0]

RECURSIVE ClosestJsDoc(_, _, _)
ClosestJsDoc(jsDocMatches, line, closestJsDoc) ==
    IF jsDocMatches = <<>> THEN closestJsDoc
    ELSE LET jsDoc == Head(jsDocMatches)
         IN ClosestJsDoc(Tail(jsDocMatches), line,
                IF /\ jsDoc.line < line /\ jsDoc.line >= line - JsDocWindow
                   /\ (closestJsDoc = NoJsDoc \/ jsDoc.line > closestJsDoc.line)
                THEN jsDoc ELSE closestJsDoc)

\* jsDocType.split(';').map((prop) => `  ${prop.trim()}`).join('\n')
TypeInfoOf(jsDocType) == [i \in DOMAIN jsDocType |-> <<"  ", jsDocType[i]>>]

\* the calls of a file without type arguments and without arguments
CommentFallback(sourceCode) ==
    LET jsDocMatches == JsDocMatches(sourceCode, 1)
        isCall(i) == sourceCode[i] = CallTok
        calls == SelectSeq([i \in DOMAIN sourceCode |-> i], isCall)
    IN [c \in DOMAIN calls |->
           LET line == LineOfIndex(sourceCode, FullStart(sourceCode, calls[c]))
               closestJsDoc == ClosestJsDoc(jsDocMatches, line, NoJsDoc)
           IN [line |-> line,
               typeInfo |-> IF closestJsDoc # NoJsDoc /\ closestJsDoc.type # <<>>
                            THEN TypeInfoOf(closestJsDoc.type) ELSE <<>>]]

ReturnedCalls(calls) == [kind |-> "calls", id |-> 0, val |-> calls]

\* the scanner analyses one file
ScanCommentsCall ==
    /\ pc = "idle"
    /\ ret = NoReturn
    /\ \E f \in DOMAIN fs :
          /\ op' = Op("analyzeParseParamsInFile", fs[f].sourceCode, Dirname(f))
          /\ ret' = ReturnedCalls(CommentFallback(fs[f].sourceCode))
    /\ UNCHANGED <<fs, cache, nextId, pc, stack, visited, result, reads, warned>>
    /\ UNCHANGED logVars

\* the pieces of a file: a @type comment over three lines, one on one line,
\* a comment without a type, a call assigned to a constant, a call that is
\* a statement by itself, lines of other code
Block(kind) ==
    CASE kind = "multi a" ->
            <<OpenTok, NewlineTok, StarTok, TypeTagTok(<<"a: string", "b: number">>),
              NewlineTok, CloseTok, NewlineTok>>
      [] kind = "multi b" ->
            <<OpenTok, NewlineTok, StarTok, WordsTok, NewlineTok, StarTok,
              TypeTagTok(<<"b: number">>), NewlineTok, CloseTok, NewlineTok>>
      [] kind = "single" ->
            <<OpenTok, TypeTagTok(<<"c: boolean">>), CloseTok, NewlineTok>>
      [] kind = "plain" -> <<OpenTok, WordsTok, CloseTok, NewlineTok>>
      [] kind = "assigned" -> <<CodeTok, CallTok, NewlineTok>>
      [] kind = "bare" -> <<CallTok, NewlineTok>>
      [] kind = "code" -> <<CodeTok, NewlineTok>>
      [] OTHER -> <<CodeTok, NewlineTok, CodeTok, NewlineTok, CodeTok, NewlineTok,
                    CodeTok, NewlineTok>>

BlockKinds ==
    {"multi a", "multi b", "single", "plain", "assigned", "bare", "code", "codes"}

SourceCodes(maxBlocks) ==
    {Concat([i \in DOMAIN kinds |-> Block(kinds[i])]) :
        kinds \in SeqsUpTo(BlockKinds, maxBlocks)}

TextFile(sourceCode) ==
    [readable |-> TRUE, scanThrows |-> FALSE, ast |-> SourceFile(<<>>),
     sourceCode |-> sourceCode]

\* the comment fallback alone, over generated files
InitScan ==
    /\ fs \in {(InCwd(<<aTs>>) :> TextFile(sourceCode)) : sourceCode \in SourceCodes(MaxBlocks)}
    /\ InitProcess

NextScan == ScanCommentsCall

SpecScan == InitScan /\ [][NextScan]_vars

-----------------------------------------------------------------------------
(* The claims about the comment fallback. ret.val holds one record for     *)
(* each call of the analysed text, in the order of the text.               *)

ScanReturned == ret.kind = "calls"

\* the line a token of the analysed text is on
LineOf(index) ==
    1 + Cardinality({i \in 1..(index - 1) : op.arg[i].t = "\n"})

\* the documentation comments from index on: each runs from its opener to
\* the next closer, and has the shape of its first @type tag, if any
RECURSIVE CommentsFrom(_)
CommentsFrom(index) ==
    LET opens == {i \in index..Len(op.arg) : op.arg[i].t = "/**"}
        open == Min(opens)
        closes == {i \in (open + 1)..Len(op.arg) : op.arg[i].t = "*/"}
        close == Min(closes)
        tags == {i \in (open + 1)..(close - 1) : op.arg[i].t = "@type"}
    IN IF opens = {} \/ closes = {} THEN {}
       ELSE (IF tags = {} THEN {}
             ELSE {[line |-> LineOf(open), shape |-> op.arg[Min(tags)].type]})
            \cup CommentsFrom(close + 1)

\* the calls of the analysed text, by the index of their token
CallIndices ==
    LET isCall(i) == op.arg[i].t = "parseParams()"
    IN SelectSeq([i \in DOMAIN op.arg |-> i], isCall)

\* the comments that may serve the call on a line
Qualifying(line) ==
    {c \in CommentsFrom(1) : c.line < line /\ c.line >= line - 5}

Nearest(comments) == CHOOSE c \in comments : \A d \in comments : d.line <= c.line

Indented(shape) == [i \in DOMAIN shape |-> <<"  ", shape[i]>>]

(* C20: a call without type arguments takes its type shape from the       *)
(* nearest documentation comment with a type shape that starts strictly    *)
(* before the call's line and at most 5 lines above it, and from no        *)
(* comment when there is none such.                                        *)
C20_NearestPrecedingComment ==
    ScanReturned =>
        /\ Len(ret.val) = Len(CallIndices)
        /\ \A c \in DOMAIN CallIndices :
              LET comments == Qualifying(LineOf(CallIndices[c]))
              IN ret.val[c].typeInfo =
                    IF comments = {} THEN <<>>
                    ELSE Indented(Nearest(comments).shape)

\* a call right below its three-line @type comment took the shape
C20_CommentAboveUsed ==
    /\ ScanReturned
    /\ op.arg = Block("multi a") \o Block("assigned")
    /\ ret.val[1].typeInfo = <<<<"  ", "a: string">>, <<"  ", "b: number">>>>

\* a call between a comment without a type and a @type comment took the
\* shape of the comment after it
C20_CommentBelowUsed ==
    /\ ScanReturned
    /\ op.arg = Block("plain") \o Block("assigned") \o Block("multi a")
    /\ ret.val[1].typeInfo = <<<<"  ", "a: string">>, <<"  ", "b: number">>>>

\* a call that is a statement by itself, right below its @type comment,
\* took no shape
C20_StatementCallUnserved ==
    /\ ScanReturned
    /\ op.arg = Block("code") \o Block("multi a") \o Block("bare")
    /\ ret.val[1].typeInfo = <<>>

\* every comment of the text has its @type tag after a star of its own,
\* and every call follows code on its own line
StarredTagsAssignedCalls ==
    /\ \A i \in DOMAIN op.arg :
          op.arg[i].t = "/**" =>
              \E j \in (i + 1)..Len(op.arg) :
                  /\ op.arg[j].t = "@type" /\ op.arg[j - 1].t = "*"
                  /\ \A k \in i..j : op.arg[k].t # "*/"
    /\ \A i \in DOMAIN op.arg :
          op.arg[i].t = "parseParams()" => i > 1 /\ op.arg[i - 1].t = "code"

\* the part of C20 that holds: texts whose comments all carry a starred
\* @type tag and whose calls all follow code on their line
C20_HoldsForStarredTags ==
    (ScanReturned /\ StarredTagsAssignedCalls) =>
        \A c \in DOMAIN CallIndices :
            LET comments == Qualifying(LineOf(CallIndices[c]))
            IN ret.val[c].typeInfo =
                  IF comments = {} THEN <<>> ELSE Indented(Nearest(comments).shape)

-----------------------------------------------------------------------------
(* The log utility alone.                                                  *)

InitLog == fs = EmptyMap /\ InitProcess

NextLog ==
    \/ \E level \in LevelArgs : LogCall(level)
    \/ \E level \in SetLevelArgs : SetLogLevelCall(level)
    \/ TimerExpires

SpecLog == InitLog /\ [][NextLog]_vars

-----------------------------------------------------------------------------
(* The claims about the log utility. logged lists the calls of log() with  *)
(* the level argument of each and the log level at the time of the call;   *)
(* customScript lists the batches handed to customScript.log.              *)

\* the messages queued, and the messages output, in order
Queued == [i \in DOMAIN logQueue |-> logQueue[i].message]
Output == Concat(customScript)

\* the level names of the documentation and their numbers
LevelNames == {"debug", "info", "warn", "error", "emergency", "silent"}
NumberOfLevel(level) ==
    IF ~level.isString THEN level.n
    ELSE CASE level.s = "debug" -> 0 [] level.s = "info" -> 1
           [] level.s = "warn" -> 2 [] level.s = "error" -> 3
           [] level.s = "emergency" -> 4 [] OTHER -> 10

NamedLevel(level) == ~level.isString \/ level.s \in LevelNames

Visible(message) == message \in Range(Queued) \cup Range(Output)

(* C24: a message passed to log() is queued or output exactly when the     *)
(* number of its level is at least the log level at the time of the call.  *)
C24_VisibleIffAtOrAboveLevel ==
    \A i \in DOMAIN logged :
        NamedLevel(logged[i].level) =>
            (Visible(logged[i].message)
                <=> NumberOfLevel(logged[i].level) >= logged[i].logLevel)

\* the part of C24 that holds: while the log level is at most warn
C24_HoldsUpToWarn ==
    \A i \in DOMAIN logged :
        (NamedLevel(logged[i].level) /\ logged[i].logLevel <= 2) =>
            (Visible(logged[i].message)
                <=> NumberOfLevel(logged[i].level) >= logged[i].logLevel)

\* after setLogLevel(3), log(message, 'error') was dropped
C24_ErrorDroppedAtLevelError ==
    /\ Len(logged) = 1
    /\ logged[1].level = Str("error")
    /\ logged[1].logLevel = 3
    /\ ~Visible(1)

\* the number of the level of a call, 1 for a name that is no level
NumberOfCall(call) ==
    IF NamedLevel(call.level) THEN NumberOfLevel(call.level) ELSE 1

\* the messages of the calls that satisfy a test, in the order of the calls
MessagesOf(Test(_)) ==
    LET kept == SelectSeq(logged, Test)
    IN [i \in DOMAIN kept |-> kept[i].message]

AtOrAboveLevel(call) == NumberOfCall(call) >= call.logLevel

\* the level of a call after the cap at warn is at or above the log level
PassedGate(call) ==
    (IF NumberOfCall(call) > 2 THEN 2 ELSE NumberOfCall(call)) >= call.logLevel

(* C27: the messages whose level was at or above the log level when they   *)
(* were passed to log() are exactly the messages output or still queued,   *)
(* each once, in the order of the calls.                                   *)
C27_AcceptedOutputOnceInOrder == Output \o Queued = MessagesOf(AtOrAboveLevel)

\* the part of C27 that holds: the messages that passed the gate of log()
\* are output or queued, each once, in the order of the calls; the queue is
\* not empty without a pending timer
C27_GatedOutputOnceInOrder ==
    /\ Output \o Queued = MessagesOf(PassedGate)
    /\ logQueue # <<>> => timers # {}

\* twenty messages of one level went out as one batch, without the timer
C27_FullQueueFlushed ==
    /\ Len(customScript) = 1
    /\ Len(customScript[1]) = MAX_QUEUE_SIZE
    /\ logQueue = <<>>
    /\ Len(logged) = MAX_QUEUE_SIZE

(* C28: in every state between the operations of the log utility a timer   *)
(* is pending exactly when the queue holds a message; the pending timer is *)
(* the one the module remembers, and there is no other.                    *)
C28_TimerIffQueued ==
    /\ timers # {} <=> logQueue # <<>>
    /\ Cardinality(timers) <= 1
    /\ timers = IF queueTimer = NoTimer THEN {} ELSE {queueTimer}

\* a message of another level flushed the queue and left the new message
\* queued under a new timer
C28_Witness ==
    /\ Len(customScript) = 1
    /\ Len(logQueue) = 1
    /\ queueTimer = 2
    /\ timers = {2}

\* the levels under which the messages of a sequence were queued
QueuedLevels(queue) == {queue[i].level : i \in DOMAIN queue}

\* the level under which log() queued a message that was handed over
LevelOfMessage(message) == LevelCapped(NumberOfCall(logged[message]))

(* C29: between the operations the queue holds fewer than MAX_QUEUE_SIZE   *)
(* messages, all queued under the level currentQueueLevel names, which is  *)
(* null exactly when the queue is empty; every batch handed to             *)
(* customScript.log holds between one and MAX_QUEUE_SIZE messages of one   *)
(* level.                                                                  *)
C29_QueueBoundedSingleLevel ==
    /\ Len(logQueue) < MAX_QUEUE_SIZE
    /\ currentQueueLevel = NoLevel <=> logQueue = <<>>
    /\ logQueue # <<>> => QueuedLevels(logQueue) = {currentQueueLevel}
    /\ \A b \in DOMAIN customScript :
        /\ Len(customScript[b]) \in 1..MAX_QUEUE_SIZE
        /\ Cardinality({LevelOfMessage(customScript[b][i]) :
                            i \in DOMAIN customScript[b]}) = 1

\* the queue one message short of the limit
C29_Witness ==
    /\ Len(logQueue) = MAX_QUEUE_SIZE - 1
    /\ QueuedLevels(logQueue) = {currentQueueLevel}

\* a batch of exactly MAX_QUEUE_SIZE messages was handed over
C29_WitnessFullBatch ==
    \E b \in DOMAIN customScript : Len(customScript[b]) = MAX_QUEUE_SIZE

-----------------------------------------------------------------------------
(* The encoded-record generator. A text is the sequence of its characters; *)
(* a ParamHash lists the keys it was given, in the order JSON.stringify    *)
(* writes them, since a key never assigned is left out of the record. The  *)
(* base64 text returned is a one-to-one encoding of that JSON text.        *)

MaxCalls == 2
MaxRows == 2

\* the characters of the parameter names in use
Chars(name) ==
    CASE name = "id" -> <<"i", "d">>
      [] name = "port" -> <<"p", "o", "r", "t">>
      [] name = "[id]" -> <<"[", "i", "d", "]">>
      [] name = "[key: string]" ->
            <<"[", "k", "e", "y", ":", " ", "s", "t", "r", "i", "n", "g", "]">>
      [] OTHER -> <<>>

\* String.prototype.trim
RECURSIVE TrimStart(_)
TrimStart(str) ==
    IF str # <<>> /\ Head(str) = " " THEN TrimStart(Tail(str)) ELSE str

RECURSIVE TrimEnd(_)
TrimEnd(str) ==
    IF str # <<>> /\ str[Len(str)] = " "
    THEN TrimEnd(SubSeq(str, 1, Len(str) - 1))
    ELSE str

Trim(str) == TrimEnd(TrimStart(str))

StartsAndEndsWith(str, quote) ==
    str # <<>> /\ Head(str) = quote /\ str[Len(str)] = quote

\* str.slice(1, -1)
SliceInner(str) == IF Len(str) < 2 THEN <<>> ELSE SubSeq(str, 2, Len(str) - 1)

removeQuotes(value) ==
    LET str == Trim(value)
    IN IF StartsAndEndsWith(str, "\"") \/ StartsAndEndsWith(str, "'")
       THEN SliceInner(str)
       ELSE str

ParamRow(name, typeStr, optional, acceptsValues, description) ==
    [name |-> name, typeStr |-> typeStr, optional |-> optional,
     acceptsValues |-> acceptsValues, description |-> description]

mapParamRowToHash(row, defaultParams) ==
    LET hasDefault == row.name \in DOMAIN defaultParams
        hasValues == Len(row.acceptsValues) > 0
        hasDescription == row.description # <<>>
    IN [keys |-> <<"name", "type", "required">>
                 \o (IF hasDefault THEN <<"default_value">> ELSE <<>>)
                 \o (IF hasValues THEN <<"available_values">> ELSE <<>>)
                 \o (IF hasDescription THEN <<"description">> ELSE <<>>),
        name |-> row.name,
        type |-> row.typeStr,
        required |-> ~row.optional,
        default_value |->
            IF hasDefault THEN removeQuotes(defaultParams[row.name]) ELSE <<>>,
        available_values |-> IF hasValues THEN row.acceptsValues ELSE <<>>,
        description |-> IF hasDescription THEN row.description ELSE <<>>]

\* /^\[.+\:\s*.+\]$/
IndexSignatureName(name) ==
    LET str == Chars(name)
    IN /\ Len(str) >= 5
       /\ Head(str) = "["
       /\ str[Len(str)] = "]"
       /\ \E colon \in 3..(Len(str) - 2) : str[colon] = ":"

\* Map.prototype.set that keeps the entry a key already has
MapSetIfAbsent(map, key, value) ==
    IF \E i \in DOMAIN map : map[i].key = key
    THEN map
    ELSE Append(map, [key |-> key, value |-> value])

\* Map.prototype.set: a key already present keeps its place in the order
MapSet(map, key, value) ==
    IF \E i \in DOMAIN map : map[i].key = key
    THEN [i \in DOMAIN map |->
             IF map[i].key = key THEN [key |-> key, value |-> value] ELSE map[i]]
    ELSE Append(map, [key |-> key, value |-> value])

\* Array.from(map.values())
MapValues(map) == [i \in DOMAIN map |-> map[i].value]

NoTable == [present |-> FALSE, rows |-> <<>>]
Table(rows) == [present |-> TRUE, rows |-> rows]

ParseParamsCallInfo(typeInfoTable, defaultParams) ==
    [typeInfoTable |-> typeInfoTable, defaultParams |-> defaultParams]

\* what the loops have gathered so far
Gathered(allParams, isParametersRequired) ==
    [allParams |-> allParams, isParametersRequired |-> isParametersRequired]

\* the body of the inner loop for one row
GatherRow(g, row, call) ==
    IF IndexSignatureName(row.name)
    THEN g
    ELSE Gathered(MapSet(g.allParams, row.name,
                         mapParamRowToHash(row, call.defaultParams)),
                  g.isParametersRequired \/ ~row.optional)

RECURSIVE GatherRows(_, _, _)
GatherRows(g, rows, call) ==
    IF rows = <<>>
    THEN g
    ELSE GatherRows(GatherRow(g, Head(rows), call), Tail(rows), call)

RECURSIVE GatherCalls(_, _)
GatherCalls(g, calls) ==
    IF calls = <<>>
    THEN g
    ELSE LET call == Head(calls)
         IN GatherCalls(IF call.typeInfoTable.present
                           /\ Len(call.typeInfoTable.rows) > 0
                        THEN GatherRows(g, call.typeInfoTable.rows, call)
                        ELSE g,
                        Tail(calls))

NoOptions == [given |-> FALSE, hostname |-> <<>>, customScriptId |-> 0,
              customScriptName |-> <<>>]

\* the record that is serialized
generateParamsBase64(parseParamsCalls, options) ==
    LET g == GatherCalls(Gathered(<<>>, FALSE), parseParamsCalls)
    IN [keys |-> <<"isParametersRequired", "parameters">>
                 \o (IF options.given /\ options.hostname # <<>>
                     THEN <<"hostname">> ELSE <<>>)
                 \o (IF options.given THEN <<"customScriptId">> ELSE <<>>)
                 \o (IF options.given /\ options.customScriptName # <<>>
                     THEN <<"customScriptName">> ELSE <<>>),
        isParametersRequired |-> g.isParametersRequired,
        parameters |-> MapValues(g.allParams),
        hostname |-> options.hostname,
        customScriptId |-> options.customScriptId,
        customScriptName |-> options.customScriptName]

ReturnedRecord(hashData) == [kind |-> "record", id |-> 0, val |-> hashData]

\* the generator encodes the calls an analysis returned
GenerateCall(options) ==
    /\ pc = "idle"
    /\ ret = NoReturn
    /\ \E f \in DOMAIN fs :
          /\ op' = Op("generateParamsBase64", fs[f].calls, Dirname(f))
          /\ ret' = ReturnedRecord(generateParamsBase64(fs[f].calls, options))
    /\ UNCHANGED <<fs, cache, nextId, pc, stack, visited, result, reads, warned>>
    /\ UNCHANGED logVars

\* rows of four names, one of them an index signature and one bracketed
\* without a colon; id and port required or optional, id also described
\* with values
RowTemplates ==
    {ParamRow(name, <<"string">>, optional, <<>>, <<>>) :
        name \in {"id", "port"}, optional \in BOOLEAN}
    \cup {ParamRow("id", <<"number">>, optional, <<<<"1">>, <<"2">>>>, <<"text">>) :
        optional \in BOOLEAN}
    \cup {ParamRow(name, <<"string">>, FALSE, <<>>, <<>>) :
        name \in {"[id]", "[key: string]"}}

DefaultParamsTemplates ==
    {("id" :> <<"'", "x", "'">>),
     ("id" :> <<" ", "5">>) @@ ("port" :> <<"\"", "y", "\"", " ">>)}

\* the calls whose table has the given number of rows, or none at all
CallTemplates(rows) ==
    {ParseParamsCallInfo(table, defaultParams) :
        table \in (IF rows = 0 THEN {NoTable} ELSE {})
                      \cup {Table(r) : r \in [1..rows -> RowTemplates]},
        defaultParams \in IF rows = 0
                          THEN {("id" :> <<"'", "x", "'">>)}
                          ELSE DefaultParamsTemplates}

RECURSIVE SumOf(_)
SumOf(sizes) == IF sizes = <<>> THEN 0 ELSE Head(sizes) + SumOf(Tail(sizes))

\* the numbers of rows of up to maxCalls calls with maxRows rows in all
TableSizes(maxCalls, maxRows) ==
    {sizes \in SeqsUpTo(0..maxRows, maxCalls) : SumOf(sizes) <= maxRows}

\* the sequences of calls whose tables have the given numbers of rows
RECURSIVE EncodeFamily(_)
EncodeFamily(sizes) ==
    IF sizes = <<>>
    THEN {<<>>}
    ELSE {<<call>> \o calls :
             call \in CallTemplates(Head(sizes)), calls \in EncodeFamily(Tail(sizes))}

OptionsTemplates ==
    {NoOptions,
     [given |-> TRUE, hostname |-> <<"h">>, customScriptId |-> 0,
      customScriptName |-> <<>>]}

AnalysedFile(calls) ==
    [readable |-> TRUE, scanThrows |-> FALSE, ast |-> SourceFile(<<>>),
     calls |-> calls]

\* generateParamsBase64 alone, over generated analysis results
InitEncode ==
    /\ \E sizes \in TableSizes(MaxCalls, MaxRows) :
          fs \in {(InCwd(<<aTs>>) :> AnalysedFile(calls)) : calls \in EncodeFamily(sizes)}
    /\ InitProcess

NextEncode == \E options \in OptionsTemplates : GenerateCall(options)

SpecEncode == InitEncode /\ [][NextEncode]_vars

-----------------------------------------------------------------------------
(* The claims about the encoded-record generator. op.arg holds the calls   *)
(* handed to it and ret.val the record it serialized.                      *)

Generated == ret.kind = "record"

\* the names of the family of the bracketed "key: type" form
IndexSignatureNames == {"[key: string]"}

\* the places <<call, row>> of the rows that declare a parameter
Declaring ==
    {place \in (DOMAIN op.arg) \X (1..MaxRows + 1) :
        /\ place[2] \in DOMAIN op.arg[place[1]].typeInfoTable.rows
        /\ op.arg[place[1]].typeInfoTable.rows[place[2]].name \notin IndexSignatureNames}

RowAt(place) == op.arg[place[1]].typeInfoTable.rows[place[2]]

PlacePrecedes(a, b) == a[1] < b[1] \/ (a[1] = b[1] /\ a[2] <= b[2])

\* the last row, in result order, that declares the name
LastDeclaring(name) ==
    CHOOSE place \in Declaring :
        /\ RowAt(place).name = name
        /\ \A other \in Declaring : RowAt(other).name = name => PlacePrecedes(other, place)

\* the default-value texts of the family without their quotes and blanks
Unquoted(text) ==
    CASE text = <<"'", "x", "'">> -> <<"x">>
      [] text = <<" ", "5">> -> <<"5">>
      [] text = <<"\"", "y", "\"", " ">> -> <<"y">>
      [] OTHER -> text

Has(parameter, key) == \E k \in DOMAIN parameter.keys : parameter.keys[k] = key

\* the parameter is built from the row at the place and the defaults of
\* the call of that row
BuiltFrom(parameter, place) ==
    LET row == RowAt(place)
        defaultParams == op.arg[place[1]].defaultParams
    IN /\ parameter.name = row.name
       /\ parameter.type = row.typeStr
       /\ parameter.required = ~row.optional
       /\ Has(parameter, "default_value") <=> row.name \in DOMAIN defaultParams
       /\ row.name \in DOMAIN defaultParams =>
              parameter.default_value = Unquoted(defaultParams[row.name])
       /\ Has(parameter, "description") <=> row.description # <<>>
       /\ Has(parameter, "description") => parameter.description = row.description
       /\ Has(parameter, "available_values") <=> row.acceptsValues # <<>>
       /\ Has(parameter, "available_values") =>
              parameter.available_values = row.acceptsValues

(* C23: the generator emits each parameter name at most once, every        *)
(* emitted parameter is the one built from the last row, in result order,  *)
(* that declares its name, and no row with an index-signature name is      *)
(* emitted.                                                                *)
C23_LastDeclaringRowWins ==
    Generated =>
        LET parameters == ret.val.parameters
        IN /\ \A i, j \in DOMAIN parameters :
                  parameters[i].name = parameters[j].name => i = j
           /\ {parameters[i].name : i \in DOMAIN parameters}
                 = {RowAt(place).name : place \in Declaring}
           /\ \A i \in DOMAIN parameters :
                  /\ parameters[i].name \notin IndexSignatureNames
                  /\ BuiltFrom(parameters[i], LastDeclaring(parameters[i].name))

\* two calls declare id differently and the row of the second is emitted
C23_Witness ==
    /\ Generated
    /\ Len(op.arg) = 2
    /\ <<1, 1>> \in Declaring
    /\ <<2, 1>> \in Declaring
    /\ RowAt(<<1, 1>>) = ParamRow("id", <<"string">>, FALSE, <<>>, <<>>)
    /\ RowAt(<<2, 1>>).name = "id"
    /\ op.arg[1].defaultParams # op.arg[2].defaultParams
    /\ Len(ret.val.parameters) = 1
    /\ ret.val.parameters[1].type = <<"number">>
    /\ ret.val.parameters[1].default_value = <<"5">>

\* an index-signature row between two declaring rows is left out
C23_WitnessIndexSignature ==
    /\ Generated
    /\ \E c \in DOMAIN op.arg :
          \E r \in DOMAIN op.arg[c].typeInfoTable.rows :
              op.arg[c].typeInfoTable.rows[r].name \in IndexSignatureNames
    /\ Len(ret.val.parameters) = 1
    /\ ret.val.parameters[1].name = "[id]"

C30_RequiredIffDeclaredRequired ==
    Generated =>
        /\ ret.val.isParametersRequired
              <=> \E place \in Declaring : ~RowAt(place).optional
        /\ (\E i \in DOMAIN ret.val.parameters : ret.val.parameters[i].required)
              => ret.val.isParametersRequired

\* id declared required, then optional: the one emitted parameter is
\* optional and the flag is set
C30_RedeclaredOptional ==
    /\ Generated
    /\ Len(ret.val.parameters) = 1
    /\ ~ret.val.parameters[1].required
    /\ ret.val.isParametersRequired

-----------------------------------------------------------------------------
(* The visit of one parseParams call by the scanner. A typeInfo is the     *)
(* sequence of its lines, each the sequence of its pieces; the defaults    *)
(* are an object, kept as the sequence of its entries in the order of its  *)
(* own keys.                                                               *)

MaxProperties == 2

\* a member of a type literal
PropertySignature(name, questionToken, type) ==
    [kind |-> "PropertySignature", name |-> name,
     questionToken |-> questionToken, type |-> type]
MethodSignature(name) ==
    [kind |-> "MethodSignature", name |-> name, questionToken |-> FALSE,
     type |-> NoType]

\* a type argument: its kind, its members, its source text and what the
\* checker declares of its type
TypeLiteralNode(members, declaration) ==
    [kind |-> "TypeLiteral", members |-> members, text |-> <<"{...}">>,
     declaration |-> declaration]
TypeReferenceNode(name, declaration) ==
    [kind |-> "TypeReference", members |-> <<>>, text |-> <<name>>,
     declaration |-> declaration]

\* a member of an object literal
PropertyAssignment(nameKind, name, initializer) ==
    [kind |-> "PropertyAssignment", nameKind |-> nameKind, name |-> name,
     initializer |-> initializer]
ShorthandPropertyAssignment(name) ==
    [kind |-> "ShorthandPropertyAssignment", nameKind |-> "Identifier",
     name |-> name, initializer |-> Identifier(name)]

ObjectLiteralExpression(properties) ==
    [kind |-> "ObjectLiteralExpression", properties |-> properties]
OtherExpression == [kind |-> "Identifier", properties |-> <<>>]

\* parseParams<typeArguments>(arguments), and the type of the closest
\* documentation comment above it, if there is one
ParseParamsCall(typeArguments, arguments, jsDocType) ==
    [typeArguments |-> typeArguments, arguments |-> arguments,
     jsDocType |-> jsDocType]

\* the source text of the name of a member: a, 'a', 1 or [a]
NameText(prop) ==
    CASE prop.nameKind = "ComputedPropertyName" ->
            <<PunctTok("["), WordTok(prop.name), PunctTok("]")>>
      [] prop.nameKind = "StringLiteral" -> <<StrTok(prop.name, "'")>>
      [] OTHER -> <<WordTok(prop.name)>>

\* the source text of a member and the comma after it
PropertyText(prop) ==
    NameText(prop)
    \o (IF prop.kind = "PropertyAssignment"
        THEN <<PunctTok(":")>> \o SourceText(prop.initializer)
        ELSE <<>>)
    \o <<PunctTok(",")>>

RECURSIVE PropertiesText(_)
PropertiesText(properties) ==
    IF properties = <<>> THEN <<>>
    ELSE PropertyText(Head(properties)) \o PropertiesText(Tail(properties))

ArgumentText(arg) ==
    IF arg.kind = "ObjectLiteralExpression"
    THEN <<PunctTok("{")>> \o PropertiesText(arg.properties) \o <<PunctTok("}")>>
    ELSE <<WordTok("options")>>

\* the file: its declarations, then the call
CallProgram(decls, call, checker) ==
    [sourceCode |-> decls.text \o <<WordTok("parseParams"), PunctTok("(")>>
                    \o (IF call.arguments = <<>> THEN <<>>
                        ELSE ArgumentText(call.arguments[1]))
                    \o <<PunctTok(")")>>,
     checker |-> checker,
     symbols |-> decls.symbols,
     initializer |-> NoNode]

\* the initializer of the i-th member as the parser places it
InitializerOf(decls, properties, i) ==
    NodeAt(properties[i].initializer,
           Len(decls.text) + 3 + Len(PropertiesText(SubSeq(properties, 1, i - 1)))
           + Len(NameText(properties[i])) + 1)

\* prop.name?.text || ''
KeyOf(prop) == IF prop.nameKind = "ComputedPropertyName" THEN "" ELSE prop.name

\* the keys that are array indices, which an object lists first, ascending
ArrayIndices == <<"0", "1", "2">>
IsArrayIndex(key) == \E i \in DOMAIN ArrayIndices : ArrayIndices[i] = key
IndexOf(key) == CHOOSE i \in DOMAIN ArrayIndices : ArrayIndices[i] = key

\* the place of a new key among the keys of an object
PlaceOfKey(obj, key) ==
    IF IsArrayIndex(key)
    THEN 1 + Cardinality({i \in DOMAIN obj :
                             /\ IsArrayIndex(obj[i].key)
                             /\ IndexOf(obj[i].key) < IndexOf(key)})
    ELSE Len(obj) + 1

\* obj[key] = value
ObjectSet(obj, key, value) ==
    IF \E i \in DOMAIN obj : obj[i].key = key
    THEN [i \in DOMAIN obj |->
             IF obj[i].key = key THEN [key |-> key, value |-> value] ELSE obj[i]]
    ELSE LET place == PlaceOfKey(obj, key)
         IN SubSeq(obj, 1, place - 1) \o <<[key |-> key, value |-> value]>>
            \o SubSeq(obj, place, Len(obj))

\* arg.properties.forEach(...)
RECURSIVE DefaultsOf(_, _, _, _)
DefaultsOf(program, decls, properties, i) ==
    IF i = 0
    THEN <<>>
    ELSE LET before == DefaultsOf(program, decls, properties, i - 1)
             prop == properties[i]
         IN IF prop.kind = "PropertyAssignment"
            THEN ObjectSet(before, KeyOf(prop),
                           resolveDefaultValue(program,
                               InitializerOf(decls, properties, i), 0).text)
            ELSE before

\* `  ${name}${optional}: ${type};`
PropertyLine(name, optional, type) ==
    <<"  ", name, IF optional THEN "?" ELSE "", ": ">> \o type \o <<";">>

\* the lines of the property signatures of a type literal
RECURSIVE MemberLines(_)
MemberLines(members) ==
    IF members = <<>> THEN <<>>
    ELSE LET member == Head(members)
         IN (IF member.kind = "PropertySignature"
             THEN <<PropertyLine(member.name, member.questionToken,
                                 IF member.type # NoType
                                 THEN <<member.type>> ELSE <<"any">>)>>
             ELSE <<>>)
            \o MemberLines(Tail(members))

\* a rendering that leaves the optional mark out
RowLinesUnmarked(rows) ==
    [i \in DOMAIN rows |-> PropertyLine(rows[i].name, FALSE, rows[i].typeStr)]

\* rows.map((r) => `  ${r.name}${r.optional ? '?' : ''}: ${r.typeStr};`)
RowLines(rows) ==
    [i \in DOMAIN rows |->
        PropertyLine(rows[i].name, rows[i].optional, rows[i].typeStr)]

\* sourceCode.substring(typeNode.pos, typeNode.end)
TypeNodeText(typeNode) == <<typeNode.text>>

\* the branches that set typeInfo and typeInfoTable
TypeInfoOfCall(call, checker) ==
    IF Len(call.typeArguments) > 0
    THEN LET typeNode == call.typeArguments[1]
         IN IF typeNode.kind = "TypeLiteral" /\ ~checker
            THEN [typeInfo |-> MemberLines(typeNode.members),
                  typeInfoTable |-> NoTable]
            ELSE IF checker
            THEN LET rows == expandTypeToParamRows(typeNode.declaration)
                 IN IF ~rows.null /\ Len(rows.rows) > 0
                    THEN [typeInfo |-> RowLines(rows.rows),
                          typeInfoTable |-> Table(rows.rows)]
                    ELSE [typeInfo |-> TypeNodeText(typeNode),
                          typeInfoTable |-> NoTable]
            ELSE [typeInfo |-> TypeNodeText(typeNode), typeInfoTable |-> NoTable]
    ELSE IF call.jsDocType # <<>>
    THEN [typeInfo |-> TypeInfoOf(call.jsDocType), typeInfoTable |-> NoTable]
    ELSE [typeInfo |-> <<>>, typeInfoTable |-> NoTable]

\* the entry visit pushes for one call
visit(decls, call, checker) ==
    LET type == TypeInfoOfCall(call, checker)
        program == CallProgram(decls, call, checker)
    IN [typeInfo |-> type.typeInfo,
        typeInfoTable |-> type.typeInfoTable,
        defaultParams |->
            IF Len(call.arguments) > 0
               /\ call.arguments[1].kind = "ObjectLiteralExpression"
            THEN DefaultsOf(program, decls, call.arguments[1].properties,
                            Len(call.arguments[1].properties))
            ELSE <<>>]

ReturnedCall(call) == [kind |-> "call", id |-> 0, val |-> call]

\* the scanner visits the parseParams call of a file
VisitCall ==
    /\ pc = "idle"
    /\ ret = NoReturn
    /\ \E f \in DOMAIN fs :
          /\ op' = Op("visit", fs[f].call, Dirname(f))
          /\ ret' = ReturnedCall(visit(ParsedDeclarations, fs[f].call, fs[f].checker))
    /\ UNCHANGED <<fs, cache, nextId, pc, stack, visited, result, reads, warned>>
    /\ UNCHANGED logVars

\* members of object literals: assignments under plain, quoted, numeric and
\* computed names, one name twice, and a shorthand
PropertyTemplates2 ==
    {PropertyAssignment("Identifier", "a", NumericLiteral(5)),
     PropertyAssignment("Identifier", "a", Identifier("FOO")),
     PropertyAssignment("StringLiteral", "b", StringLiteral("x", "'")),
     PropertyAssignment("NumericLiteral", "1", Keyword("true")),
     PropertyAssignment("ComputedPropertyName", "K",
         BinaryExpression(NumericLiteral(60), "*", Identifier("U"))),
     ShorthandPropertyAssignment("port")}

ArgumentTemplates(maxProperties) ==
    {<<>>, <<OtherExpression>>}
    \cup {<<ObjectLiteralExpression(properties)>> :
             properties \in SeqsUpTo(PropertyTemplates2, maxProperties)}

\* what the checker declares of the type arguments of the family
NoDeclaration == Declaration(BaseTypes, <<>>, NoType, NoType)
ParamsDeclaration ==
    Declaration(BaseTypes,
                <<Property("id", FALSE, <<>>, "string"),
                  Property("mode", TRUE, Leading("tagged"), "number")>>,
                "string", NoType)

TypeArgumentTemplates ==
    {<<>>,
     <<TypeLiteralNode(<<>>, NoDeclaration)>>,
     <<TypeLiteralNode(<<PropertySignature("id", FALSE, "string"),
                         MethodSignature("run"),
                         PropertySignature("mode", TRUE, NoType)>>,
                       Declaration(BaseTypes,
                                   <<Property("id", FALSE, <<>>, "string"),
                                     Property("mode", TRUE, <<>>, NoType)>>,
                                   NoType, NoType))>>,
     <<TypeReferenceNode("Params", ParamsDeclaration)>>,
     <<TypeReferenceNode("string", NoDeclaration)>>}

JsDocTypeTemplates == {<<>>, <<"a: string", "b: number">>}

CallFile(call, checker) ==
    [readable |-> TRUE, scanThrows |-> FALSE, ast |-> SourceFile(<<>>),
     call |-> call, checker |-> checker]

\* visit alone, over generated calls
InitVisit ==
    /\ fs \in {(InCwd(<<aTs>>) :> CallFile(ParseParamsCall(t, a, j), checker)) :
                  t \in TypeArgumentTemplates,
                  a \in ArgumentTemplates(MaxProperties),
                  j \in JsDocTypeTemplates,
                  checker \in BOOLEAN}
    /\ InitProcess

NextVisit == VisitCall

SpecVisit == InitVisit /\ [][NextVisit]_vars

-----------------------------------------------------------------------------
(* The claims about the visit of a call. op.arg holds the call visited and *)
(* ret.val the entry pushed for it.                                        *)

Visited == ret.kind = "call"

WithChecker == \E f \in DOMAIN fs : fs[f].checker

(* C21: the type descriptor of a call is either structural rows or a raw   *)
(* textual fallback and never both: typeInfo is empty whenever             *)
(* typeInfoTable is present, and no rows are present whenever typeInfo is  *)
(* non-empty.                                                              *)
C21_RowsAndTextExclusive ==
    Visited =>
        /\ ret.val.typeInfoTable.present => ret.val.typeInfo = <<>>
        /\ ret.val.typeInfo # <<>> => ~ret.val.typeInfoTable.present

\* the line that renders a row: two blanks, the name, a question mark if
\* the row is optional, a colon, the type, a semicolon
Rendered(row) ==
    <<"  ", row.name>> \o (IF row.optional THEN <<"?">> ELSE <<"">>)
    \o <<": ">> \o row.typeStr \o <<";">>

\* the text of a call without structural rows
Fallback(call, checker) ==
    IF call.typeArguments = <<>>
    THEN [i \in DOMAIN call.jsDocType |-> <<"  ", call.jsDocType[i]>>]
    ELSE IF call.typeArguments[1].kind = "TypeLiteral" /\ ~checker
    THEN LET isProperty(member) == member.kind = "PropertySignature"
             members == SelectSeq(call.typeArguments[1].members, isProperty)
         IN [i \in DOMAIN members |->
                <<"  ", members[i].name, IF members[i].questionToken THEN "?" ELSE "",
                  ": ", IF members[i].type = NoType THEN "any" ELSE members[i].type,
                  ";">>]
    ELSE <<call.typeArguments[1].text>>

(* C21 as the code has it: structural rows are present exactly when a      *)
(* checker expanded the type argument into at least one row, and then      *)
(* typeInfo is the rendering of exactly those rows, one line for each;     *)
(* without structural rows typeInfo is the raw textual fallback.           *)
C21_RowsWithTheirRendering ==
    Visited =>
        LET table == ret.val.typeInfoTable
            typeInfo == ret.val.typeInfo
        IN /\ table.present =>
                 /\ table.rows # <<>>
                 /\ WithChecker /\ op.arg.typeArguments # <<>>
                 /\ typeInfo = [i \in DOMAIN table.rows |-> Rendered(table.rows[i])]
           /\ ~table.present =>
                 /\ table.rows = <<>>
                 /\ typeInfo = Fallback(op.arg, WithChecker)

\* an interface of a required and an optional property and an index
\* signature, expanded by the checker
C21_Witness ==
    /\ Visited
    /\ ret.val.typeInfoTable.present
    /\ Len(ret.val.typeInfoTable.rows) = 3
    /\ ret.val.typeInfo =
          << <<"  ", "id", "", ": ", "string", ";">>,
             <<"  ", "mode", "?", ": ", "number", ";">>,
             <<"  ", "[key: string]", "", ": ", "string", ";">> >>

\* a type the checker cannot expand is kept as its source text
C21_WitnessFallback ==
    /\ Visited
    /\ WithChecker
    /\ ~ret.val.typeInfoTable.present
    /\ ret.val.typeInfo = <<<<"string">>>>

\* the first argument of the call visited is an object literal
LiteralGiven ==
    /\ op.arg.arguments # <<>>
    /\ op.arg.arguments[1].kind = "ObjectLiteralExpression"

Properties == op.arg.arguments[1].properties

\* the evaluator's result for the initializer of the i-th property
Evaluated(i) ==
    resolveDefaultValue(CallProgram(ParsedDeclarations, op.arg, WithChecker),
                        InitializerOf(ParsedDeclarations, Properties, i), 0).text

\* one entry per property, under its name, in source order
EntryPerProperty ==
    /\ Len(ret.val.defaultParams) = Len(Properties)
    /\ \A i \in DOMAIN Properties :
          /\ ret.val.defaultParams[i].key = Properties[i].name
          /\ ret.val.defaultParams[i].value = Evaluated(i)

(* C22: for a call whose first argument is an object literal the defaults  *)
(* hold exactly one entry per property of the literal, under the name of   *)
(* the property, in source order, with the evaluator's result for the      *)
(* initializer of the property; for a call without an argument or with     *)
(* another first argument the defaults are empty.                          *)
C22_OneDefaultPerProperty ==
    Visited =>
        IF LiteralGiven THEN EntryPerProperty ELSE ret.val.defaultParams = <<>>

\* literals of property assignments under distinct plain or quoted names
PlainAssignments ==
    /\ LiteralGiven
    /\ \A i \in DOMAIN Properties :
          /\ Properties[i].kind = "PropertyAssignment"
          /\ Properties[i].nameKind \in {"Identifier", "StringLiteral"}
          /\ ~IsArrayIndex(Properties[i].name)
          /\ \A j \in DOMAIN Properties : Properties[j].name = Properties[i].name => i = j

\* the part of C22 that holds: literals of plain assignments, and calls
\* without a literal
C22_HoldsForPlainAssignments ==
    Visited =>
        /\ PlainAssignments => EntryPerProperty
        /\ ~LiteralGiven => ret.val.defaultParams = <<>>

\* { a: 5, b: 'x' } is recorded as a and b, in that order
C22_TwoAssignmentsRecorded ==
    /\ Visited
    /\ PlainAssignments
    /\ Len(Properties) = 2
    /\ ret.val.defaultParams =
          <<[key |-> "a", value |-> <<NumTok(Whole(5))>>],
            [key |-> "b", value |-> <<StrTok("x", "\"")>>]>>

\* { port } leaves the defaults empty
C22_ShorthandSkipped ==
    /\ Visited
    /\ LiteralGiven
    /\ Properties = <<ShorthandPropertyAssignment("port")>>
    /\ ret.val.defaultParams = <<>>

\* { [K]: 60 * U } is recorded under the empty key with its source text
C22_ComputedNameUnderEmptyKey ==
    /\ Visited
    /\ LiteralGiven
    /\ Len(Properties) = 1
    /\ ret.val.defaultParams =
          <<[key |-> "",
             value |-> <<NumTok(Whole(60)), PunctTok("*"), WordTok("U")>>]>>

\* { b: 'x', 1: true } lists the key 1 before the key b
C22_NumericKeyFirst ==
    /\ Visited
    /\ LiteralGiven
    /\ Len(Properties) = 2
    /\ Properties[1].name = "b"
    /\ Len(ret.val.defaultParams) = 2
    /\ ret.val.defaultParams[1].key = "1"

-----------------------------------------------------------------------------
(* The claims about identifiers and verbatim text in the default-value     *)
(* evaluator, over declarations of the analysed file and of another.       *)

\* the program of the evaluation
Evaluating == fs[CHOOSE f \in DOMAIN fs : TRUE].program

RECURSIVE NodesOf(_)
NodesOf(node) ==
    {node} \cup UNION {NodesOf(node.kids[k]) : k \in DOMAIN node.kids}

\* the nodes of the other file
ImportedNodes ==
    LET symbols == Parsed(ImportedDeclarations).symbols
    IN UNION {NodesOf(symbols[i].initializer) : i \in DOMAIN symbols}

\* the declaration of the identifier as the checker knows it
DeclarationsOf(node) ==
    {i \in DOMAIN Evaluating.symbols : WordTok(Evaluating.symbols[i].name) = node.text}

TypeTextOf(node) ==
    IF DeclarationsOf(node) = {} THEN <<WordTok("any")>>
    ELSE Evaluating.symbols[CHOOSE i \in DeclarationsOf(node) : TRUE].typeString

\* the text is one word, as an identifier or a keyword is
SingleWord(text) == Len(text) = 1 /\ text[1].t = "word"

\* what an identifier evaluates to, given whether its type text is taken
IdentifierEvaluatedAs(i, typeTextTaken) ==
    LET call == ret.calls[i]
        node == call.node
    IN IF ~Evaluating.checker \/ TypeTextOf(node) = Thrown
       THEN call.made = 0 /\ call.text = SourceText(node)
       ELSE IF typeTextTaken
       THEN call.made = 0 /\ call.text = TypeTextOf(node)
       ELSE IF DeclarationsOf(node) # {}
       THEN /\ call.made = 1
            /\ ret.calls[i + 1].depth = call.depth + 1
            /\ ret.calls[i + 1].node =
                  Evaluating.symbols[CHOOSE d \in DeclarationsOf(node) : TRUE].initializer
            /\ call.text = ret.calls[i + 1].text
       ELSE call.made = 0 /\ call.text = SourceText(node)

\* the calls that evaluate an identifier of the analysed file
IdentifierCalls ==
    {i \in DOMAIN ret.calls :
        /\ ret.calls[i].node.kind = "Identifier"
        /\ ret.calls[i].depth <= maxDepth
        /\ ret.calls[i].node \notin ImportedNodes}

C25_WitnessTypeText ==
    /\ DefaultReturned
    /\ Evaluating.checker
    /\ op.arg.text = WordTok("FIVE")
    /\ op.arg.kind = "Identifier"
    /\ Len(ret.calls) = 1
    /\ ret.val = <<NumTok(Whole(5))>>

\* T, which the checker throws on, gave its own text
C25_WitnessThrown ==
    /\ DefaultReturned
    /\ Evaluating.checker
    /\ op.arg.kind = "Identifier"
    /\ op.arg.text = WordTok("T")
    /\ ret.val = <<WordTok("T")>>

\* the calls that returned verbatim text: past the cap, an identifier that
\* gave neither its type text nor the value of a declaration, a binary
\* expression whose operands did not both give numerals
Verbatim(i) ==
    LET call == ret.calls[i]
    IN \/ call.depth > maxDepth
       \/ /\ call.node.kind = "Identifier"
          /\ call.made = 0
          /\ \/ ~Evaluating.checker
             \/ SingleWord(TypeTextOf(call.node))
       \/ /\ call.node.kind = "BinaryExpression"
          /\ \E j \in OperandCalls(i) : ~IsNumeral(ret.calls[j].text)

(* C26: the verbatim text returned for a node is the source text of that   *)
(* node, in whichever file the node is.                                    *)
C26_VerbatimIsOwnText ==
    DefaultReturned =>
        \A i \in DOMAIN ret.calls :
            Verbatim(i) => ret.calls[i].text = SourceText(ret.calls[i].node)

\* the part of C26 that holds: the nodes of the analysed file
C26_HoldsInAnalysedFile ==
    DefaultReturned =>
        \A i \in DOMAIN ret.calls :
            (Verbatim(i) /\ ret.calls[i].node \notin ImportedNodes)
                => ret.calls[i].text = SourceText(ret.calls[i].node)

\* REMOTE, declared in the other file as X * 2, gave the text at that span
\* of the analysed file
C26_ImportedTextFromAnalysedFile ==
    /\ DefaultReturned
    /\ Evaluating.checker
    /\ op.arg.kind = "Identifier"
    /\ op.arg.text = WordTok("REMOTE")
    /\ ret.val = SubSeq(Evaluating.sourceCode, 4, 6)
    /\ ret.val # <<WordTok("X"), PunctTok("*"), NumTok(Whole(2))>>

====
